---- MODULE Spec2Model ----
(***************************************************************************)
(* A model of the stateful parts of dark-automation:                      *)
(*   - infrastructure_orchestrator.py: deployment planning (topological   *)
(*     order, dependency levels), plan execution and rollback;            *)
(*   - ci_cd_pipeline_manager.py: the pipeline worker and cancellation;   *)
(*   - robotic_process_automation.py: the workflow worker and             *)
(*     cancellation;                                                      *)
(*   - pair_programming_utils.py: the session manager.                    *)
(* Each subsystem has its own specification over its own variables; the   *)
(* variables of the other subsystems stay at their initial values.        *)
(*                                                                         *)
(* Resource ids of a plan are modelled by their position in the plan's    *)
(* resource list (1..n); the id 0 stands for an id that names no resource *)
(* of the plan.  Since the code never compares ids other than for         *)
(* equality, every listing order of every plan is a plan of this form.    *)
(***************************************************************************)
EXTENDS Integers, Sequences, FiniteSets, TLC

\* ------------------------------------------------------------------ bounds
MaxResources == 3        \* resources of a plan (planning functions)
MaxEdges == 3            \* dependency entries of a plan, all lists together
MaxDeployResources == 3  \* resources of a plan that is executed
MaxDeployEdges == 2      \* dependency entries of a plan that is executed
MaxCalls == 5            \* calls made on a PairProgrammingManager
MaxClock == 2            \* ticks of the wall clock
MaxSteps == 3            \* steps of a pipeline
MaxStepDeps == 2         \* dependency entries of a pipeline, all steps together
MaxActions == 3          \* actions of an RPA workflow
MaxTargets == 2          \* targets of one scan_infrastructure call
MaxScans == 2            \* scan_infrastructure calls of a behaviour
MaxPriorScans == 7       \* one-target scans made before the behaviour
MaxMocks == 1            \* results the caller appends to scan_results itself
MaxNodes == 2            \* registered edge nodes
MaxReplicas == 3         \* replicas asked of schedule_workload and scale_workload
MaxEdgeCalls == 3        \* scheduler and node manager calls of a behaviour
MaxDay == 2              \* days the clock of the artifact store runs
MaxRetention == 1        \* retention_days given to cleanup_old_artifacts
MaxArtCalls == 4         \* manager calls on executions and artifacts
MaxBackupTime == 2       \* seconds the clock of the backup system runs
MaxRetryCount == 3       \* PipelineStep.retry_count
MaxReturnCode == 2       \* return codes of a command
MaxVsCalls == 6          \* vSphere client calls of a behaviour

\* ------------------------------------------------------------------ state
VARIABLES
    \* planning functions (infrastructure_orchestrator.py)
    pplan,        \* the resources handed to the planning functions
    ppc,          \* "input" | "done"
    levels,       \* result of _group_by_dependency_level
    order,        \* result of _calculate_execution_order
    \* plan execution (infrastructure_orchestrator.py)
    dplan,               \* DeploymentPlan.resources
    providerOk,          \* per resource: its provider is one _deploy_resource supports
    parallel_execution,  \* config["deployment"]["parallel_execution"]
    rollback_on_failure, \* config["deployment"]["rollback_on_failure"]
    execution_order,     \* DeploymentPlan.execution_order
    rollback_plan,       \* DeploymentPlan.rollback_plan
    dpc,                 \* where execute_deployment_plan stands
    resState,            \* Resource.state of each resource of the plan
    registry,            \* keys of InfrastructureOrchestrator.resources
    results,             \* execution_results
    dependency_levels,   \* _execute_parallel_deployment.dependency_levels
    levelIdx,            \* position of the loop over dependency_levels
    awaitIdx,            \* position of the loop awaiting the level's tasks
    task,                \* per resource: its _deploy_resource coroutine
    seqIdx,              \* position of the loop over execution_order
    rbIdx,               \* position of the loop over rollback_plan
    rollback_results,    \* _execute_rollback.rollback_results
    \* session manager (pair_programming_utils.py)
    sessions,     \* PairProgrammingManager.sessions
    clock,        \* what datetime.datetime.now() returns
    lastCall,     \* the last call made on the manager and how it ended
    ncalls,       \* number of calls made
    addLog,       \* per session id: the tasks of the add_task_completion calls that returned
    endLog,       \* the session ids end_session returned for
    \* pipeline worker (ci_cd_pipeline_manager.py)
    pipeline,      \* Pipeline.steps: their number and their dependencies lists
    srcDirExists,  \* the workspace already holds source/src when the clone runs
    execStatus,    \* PipelineExecution.status ("none": no execution yet)
    execSteps,     \* PipelineExecution.steps: step id -> its recorded status
    execLogs,      \* PipelineExecution.logs: the kind of each entry, in order
    execEnded,     \* PipelineExecution.end_time is set
    cpc,           \* where the worker running _execute_pipeline stands
    stepIdx,       \* position of the loop over pipeline.steps
    cancelPc,      \* where a cancel_pipeline_execution call stands
    cancelled,     \* cancel_pipeline_execution has returned True
    \* workflow worker (robotic_process_automation.py)
    nActions,       \* len(workflow.actions)
    rStatus,        \* WorkflowExecution.status ("none": no execution yet)
    action_results, \* WorkflowExecution.action_results (their statuses)
    rpc,            \* where the worker running _execute_workflow_actions stands
    actIdx,         \* position of the loop over workflow.actions
    rEnded,         \* WorkflowExecution.end_time is set
    rCancelled,     \* cancel_execution has returned True
    \* security scanner (enterprise_security_scanner.py)
    scan_results,  \* EnterpriseSecurityScanner.scan_results
    scanTargets,   \* targets of the scan_infrastructure call, last or running
    scanDone,      \* the _scan_target tasks of the running call that finished
    scanPc,        \* "idle", or "scanning": scan_infrastructure awaits gather
    nscans,        \* scan_infrastructure calls made
    returnedTotal, \* sum of the lengths of the lists the calls returned
    mocked,        \* results the caller put into scan_results itself
    scanOut,       \* the operation that returned last, and its value
    \* workload scheduler (edge_computing_orchestrator.py)
    nodes,         \* EdgeNodeManager.nodes, in insertion order, with the latest usage
    workloads,     \* WorkloadScheduler.workloads: the registered workload ids
    deployments,   \* WorkloadScheduler.deployments, in insertion order
    edgeCalls,     \* scheduler and node manager calls made
    edgeOut,       \* the call that returned last, and its outcome
    \* artifact store (ci_cd_pipeline_manager.py)
    executions,      \* CICDPipelineManager.executions: execution id -> start_time
    artifacts_store, \* CICDPipelineManager.artifacts_store: artifact id -> path
    today,           \* datetime.now(), in days
    artCalls,        \* manager calls made
    artOut,          \* the call that returned last
    \* backup system (enterprise_backup_system.py)
    backup_type,   \* jobs[job_id].backup_type of the one job
    mtime,         \* modification time of every file of the job's source
    bexecs,        \* executions of the job, by the second they started in
    bnow,          \* time.time(), datetime.now()
    lastExec,      \* start second of the execution that returned last, or -1
    \* vSphere client (vmware_vsphere_client.py)
    vsCalls,       \* client calls made
    vsOut,         \* the call that returned last, and what it returned
    \* one step of a pipeline (ci_cd_pipeline_manager.py, _execute_step)
    retry_count,  \* PipelineStep.retry_count
    stepPc,       \* where _execute_step stands
    attempt,      \* iterations of the retry loop that ran to their end
    step_status,  \* step_result["status"] ("none": no result yet)
    commandRuns   \* what each _run_command call of the step did, in order

planVars == <<pplan, ppc, levels, order>>

deployVars == <<dplan, providerOk, parallel_execution, rollback_on_failure,
                execution_order, rollback_plan, dpc, resState, registry,
                results, dependency_levels, levelIdx, awaitIdx, task, seqIdx,
                rbIdx, rollback_results>>

pairVars == <<sessions, clock, lastCall, ncalls, addLog, endLog>>

cicdVars == <<pipeline, srcDirExists, execStatus, execSteps, execLogs,
              execEnded, cpc, stepIdx, cancelPc, cancelled>>

rpaVars == <<nActions, rStatus, action_results, rpc, actIdx, rEnded, rCancelled>>

scanVars == <<scan_results, scanTargets, scanDone, scanPc, nscans,
              returnedTotal, mocked, scanOut>>

edgeVars == <<nodes, workloads, deployments, edgeCalls, edgeOut>>

artVars == <<executions, artifacts_store, today, artCalls, artOut>>

backupVars == <<backup_type, mtime, bexecs, bnow, lastExec>>

vsVars == <<vsCalls, vsOut>>

stepVars == <<retry_count, stepPc, attempt, step_status, commandRuns>>

vars == <<planVars, deployVars, pairVars, cicdVars, rpaVars, scanVars, edgeVars, artVars, backupVars, vsVars, stepVars>>

\* What the actions of one subsystem leave alone: the other subsystems.
planOthers == <<deployVars, pairVars, cicdVars, rpaVars, scanVars, edgeVars, artVars, backupVars, vsVars, stepVars>>
deployOthers == <<planVars, pairVars, cicdVars, rpaVars, scanVars, edgeVars, artVars, backupVars, vsVars, stepVars>>
pairOthers == <<planVars, deployVars, cicdVars, rpaVars, scanVars, edgeVars, artVars, backupVars, vsVars, stepVars>>
cicdOthers == <<planVars, deployVars, pairVars, rpaVars, scanVars, edgeVars, artVars, backupVars, vsVars, stepVars>>
rpaOthers == <<planVars, deployVars, pairVars, cicdVars, scanVars, edgeVars, artVars, backupVars, vsVars, stepVars>>
scanOthers == <<planVars, deployVars, pairVars, cicdVars, rpaVars, edgeVars, artVars, backupVars, vsVars, stepVars>>
edgeOthers == <<planVars, deployVars, pairVars, cicdVars, rpaVars, scanVars, artVars, backupVars, vsVars, stepVars>>
artOthers == <<planVars, deployVars, pairVars, cicdVars, rpaVars, scanVars, edgeVars, backupVars, vsVars, stepVars>>
backupOthers == <<planVars, deployVars, pairVars, cicdVars, rpaVars, scanVars, edgeVars, artVars, vsVars, stepVars>>
vsOthers == <<planVars, deployVars, pairVars, cicdVars, rpaVars, scanVars, edgeVars, artVars, backupVars, stepVars>>
stepOthers == <<planVars, deployVars, pairVars, cicdVars, rpaVars, scanVars, edgeVars, artVars, backupVars, vsVars>>

\* ----------------------------------------------------------------- helpers
\* max_dep_level = dep_level: the last dependency's level instead of the highest
LastDepLevel(a, b) == b

Max2(a, b) == IF a >= b THEN a ELSE b

Range(s) == {s[i] : i \in DOMAIN s}

RECURSIVE SumLen(_, _)
SumLen(ds, i) == IF i > Len(ds) THEN 0 ELSE Len(ds[i]) + SumLen(ds, i + 1)

\* All plans of exactly n resources with at most e dependency entries: each
\* resource i has a list deps[i] of ids in 0..n (duplicates and self
\* references allowed, as in a List[str] read from a specification file).
RECURSIVE PlansWith(_, _)
PlansWith(n, e) ==
    IF e = 0 THEN {[n |-> n, deps |-> [i \in 1..n |-> <<>>]]}
    ELSE LET smaller == PlansWith(n, e - 1)
         IN  smaller \cup
             {[p EXCEPT !.deps[i] = Append(@, t)] :
                 p \in {q \in smaller : SumLen(q.deps, 1) = e - 1},
                 i \in 1..n, t \in 0..n}

PlansUpTo(maxN, maxE) == UNION {PlansWith(n, maxE) : n \in 1..maxN}

InPlan(plan, rid) == rid \in 1..plan.n

\* The in-plan dependencies of resource rid.
PlanDeps(plan, rid) == {d \in Range(plan.deps[rid]) : InPlan(plan, d)}

\* rid lies on a dependency cycle: it reaches itself along one or more edges.
RECURSIVE ReachFrom(_, _, _)
ReachFrom(plan, frontier, seen) ==
    LET next == UNION {PlanDeps(plan, r) : r \in frontier}
    IN  IF next \subseteq seen THEN seen
        ELSE ReachFrom(plan, next \ seen, seen \cup next)

Reaches(plan, rid) == ReachFrom(plan, {rid}, {})

OnCycle(plan, rid) == rid \in Reaches(plan, rid)

Acyclic(plan) == \A r \in 1..plan.n : ~OnCycle(plan, r)

\* ------------------------------------------- _group_by_dependency_level
NoLevel == -1    \* the id is not a key of resource_levels

\* calculate_level(resource_id, visited): the level and the updated
\* resource_levels memo.  memo is a function on 0..n, NoLevel where unset.
RECURSIVE calculate_level(_, _, _, _)
RECURSIVE DepLevelLoop(_, _, _, _, _)

VisitedHit(rid, visited) == rid \in visited

calculate_level(plan, rid, visited, memo) ==
    IF VisitedHit(rid, visited)
    THEN [level |-> 0, memo |-> memo]
    ELSE IF memo[rid] # NoLevel
    THEN [level |-> memo[rid], memo |-> memo]
    ELSE LET v2 == visited \cup {rid}
             r  == IF ~InPlan(plan, rid) \/ plan.deps[rid] = <<>>
                   THEN [level |-> 0, memo |-> memo]
                   ELSE LET a == DepLevelLoop(plan, plan.deps[rid], 1, v2,
                                              [max |-> 0, memo |-> memo])
                        IN  [level |-> a.max + 1, memo |-> a.memo]
         IN  [level |-> r.level, memo |-> [r.memo EXCEPT ![rid] = r.level]]

\* for dep in resource.dependencies: max_dep_level = max(max_dep_level, ...)
DepLevelLoop(plan, deps, i, visited, acc) ==
    IF i > Len(deps) THEN acc
    ELSE LET c == calculate_level(plan, deps[i], visited, acc.memo)
         IN  DepLevelLoop(plan, deps, i + 1, visited,
                          [max |-> Max2(acc.max, c.level), memo |-> c.memo])

\* levels[level].append(resource.id), the dict kept in insertion order: a
\* sequence of [level, ids] records.
LevelsAppend(lv, level, rid) ==
    IF \E k \in DOMAIN lv : lv[k].level = level
    THEN [k \in DOMAIN lv |->
            IF lv[k].level = level
            THEN [lv[k] EXCEPT !.ids = Append(@, rid)] ELSE lv[k]]
    ELSE Append(lv, [level |-> level, ids |-> <<rid>>])

RECURSIVE GroupLoop(_, _, _)
GroupLoop(plan, i, acc) ==
    IF i > plan.n THEN acc
    ELSE LET c == calculate_level(plan, i, {}, acc.memo)
         IN  GroupLoop(plan, i + 1,
                       [memo |-> c.memo,
                        levels |-> LevelsAppend(acc.levels, c.level, i)])

_group_by_dependency_level(plan) ==
    GroupLoop(plan, 1, [memo |-> [i \in 0..plan.n |-> NoLevel],
                        levels |-> <<>>]).levels

\* The level a resource was placed in by a result lv (the set of levels
\* holding it).
LevelsOf(lv, rid) ==
    {lv[k].level : k \in {j \in DOMAIN lv : rid \in Range(lv[j].ids)}}

\* ---------------------------------------------- _calculate_execution_order
CountIn(s, x) == Cardinality({i \in DOMAIN s : s[i] = x})

\* in_degree[resource.id] += 1 for each dependency that is a key of graph
in_degree(plan) ==
    [i \in 1..plan.n |->
        Cardinality({k \in DOMAIN plan.deps[i] : InPlan(plan, plan.deps[i][k])})]

RECURSIVE Repeat(_, _)
Repeat(x, k) == IF k = 0 THEN <<>> ELSE <<x>> \o Repeat(x, k - 1)

\* graph[dep].append(resource.id), resources in plan order
RECURSIVE GraphList(_, _, _)
GraphList(plan, dep, i) ==
    IF i > plan.n THEN <<>>
    ELSE Repeat(i, CountIn(plan.deps[i], dep)) \o GraphList(plan, dep, i + 1)

graph(plan) == [d \in 1..plan.n |-> GraphList(plan, d, 1)]

\* queue = list(in_degree): every resource enqueued, whatever its in-degree
RECURSIVE QueueOfAll(_, _, _)
QueueOfAll(plan, deg, i) ==
    IF i > plan.n THEN <<>> ELSE <<i>> \o QueueOfAll(plan, deg, i + 1)

RECURSIVE InitialQueue(_, _, _)
InitialQueue(plan, deg, i) ==
    IF i > plan.n THEN <<>>
    ELSE (IF deg[i] = 0 THEN <<i>> ELSE <<>>) \o InitialQueue(plan, deg, i + 1)

\* for neighbor in graph[current]: in_degree[neighbor] -= 1; enqueue at 0
RECURSIVE NeighborLoop(_, _, _)
NeighborLoop(nbs, k, acc) ==
    IF k > Len(nbs) THEN acc
    ELSE LET nb  == nbs[k]
             deg == [acc.deg EXCEPT ![nb] = @ - 1]
         IN  NeighborLoop(nbs, k + 1,
                [deg |-> deg,
                 queue |-> IF deg[nb] = 0 THEN Append(acc.queue, nb)
                           ELSE acc.queue])

RECURSIVE KahnLoop(_, _, _, _)
KahnLoop(g, queue, deg, out) ==
    IF queue = <<>> THEN out
    ELSE LET current == Head(queue)
             a == NeighborLoop(g[current], 1,
                               [deg |-> deg, queue |-> Tail(queue)])
         IN  KahnLoop(g, a.queue, a.deg, Append(out, current))

_calculate_execution_order(plan) ==
    LET deg == in_degree(plan)
    IN  KahnLoop(graph(plan), InitialQueue(plan, deg, 1), deg, <<>>)

\* ------------------------------------------------ execute_deployment_plan
NoResults == [status |-> "none", resources |-> {}, errors |-> 0,
              rollback |-> "absent"]

\* The state before any plan is made: nothing planned, nothing deployed.
DeployIdle ==
    /\ dplan = [n |-> 0, deps |-> <<>>]
    /\ providerOk = <<>>
    /\ parallel_execution = TRUE
    /\ rollback_on_failure = TRUE
    /\ execution_order = <<>>
    /\ rollback_plan = <<>>
    /\ dpc = "idle"
    /\ resState = <<>>
    /\ registry = {}
    /\ results = NoResults
    /\ dependency_levels = <<>>
    /\ levelIdx = 0
    /\ awaitIdx = 0
    /\ task = <<>>
    /\ seqIdx = 0
    /\ rbIdx = 0
    /\ rollback_results = <<>>

PlanIdle ==
    /\ pplan = [n |-> 0, deps |-> <<>>]
    /\ ppc = "idle"
    /\ levels = <<>>
    /\ order = <<>>

Reverse(s) == [i \in 1..Len(s) |-> s[Len(s) + 1 - i]]

\* ---------------------------------------------------- CICDPipelineManager
\* CICDPipelineManager.__init__: no pipeline, no execution
CicdIdle ==
    /\ pipeline = [n |-> 0, deps |-> <<>>]
    /\ srcDirExists = FALSE
    /\ execStatus = "none"
    /\ execSteps = [x \in {} |-> ""]
    /\ execLogs = <<>>
    /\ execEnded = FALSE
    /\ cpc = "idle"
    /\ stepIdx = 0
    /\ cancelPc = "idle"
    /\ cancelled = FALSE

\* A manager with one pipeline: step ids are the steps' positions, a
\* dependency 0 names no step of the pipeline.  The workspace directory of
\* the execution to come may or may not hold source/src already.
CicdInit ==
    /\ pipeline \in PlansUpTo(MaxSteps, MaxStepDeps)
    /\ srcDirExists \in BOOLEAN
    /\ execStatus = "none"
    /\ execSteps = [x \in {} |-> ""]
    /\ execLogs = <<>>
    /\ execEnded = FALSE
    /\ cpc = "idle"
    /\ stepIdx = 0
    /\ cancelPc = "idle"
    /\ cancelled = FALSE

\* What _execute_step can return as the step's status: "success", "failed"
\* (an attempt that fails for good, a timeout, an exception), or the
\* initial "running" when the retry loop makes no attempt.
StepOutcomes == {"success", "failed", "running"}

\* trigger_pipeline: the execution is created PENDING and submitted.
trigger_pipeline ==
    /\ cpc = "idle"
    /\ execStatus' = "pending"
    /\ cpc' = "submitted"
    /\ UNCHANGED <<pipeline, srcDirExists, execLogs, execSteps, execEnded, stepIdx,
                   cancelPc, cancelled>>
    /\ UNCHANGED cicdOthers

\* _execute_pipeline starts on a pool thread: status RUNNING.
WorkerStart ==
    /\ cpc = "submitted"
    /\ execStatus' = "running"
    /\ cpc' = "clone"
    /\ UNCHANGED <<pipeline, srcDirExists, execLogs, execSteps, execEnded, stepIdx,
                   cancelPc, cancelled>>
    /\ UNCHANGED cicdOthers

\* _clone_repository opens source/src/main.py for writing before it makes
\* source/src: FileNotFoundError unless the directory is there already.
\* The exception ends _execute_pipeline in its handler: FAILED, end_time.
CloneRepository ==
    /\ cpc = "clone"
    /\ IF srcDirExists
       THEN /\ cpc' = "loop"
            /\ stepIdx' = 1
            /\ UNCHANGED <<execStatus, execEnded, execLogs>>
       ELSE /\ execStatus' = "failed"
            /\ execEnded' = TRUE
            /\ execLogs' = Append(execLogs, "Pipeline execution failed")
            /\ cpc' = "done"
            /\ UNCHANGED stepIdx
    /\ UNCHANGED <<pipeline, srcDirExists, execSteps, cancelPc, cancelled>>
    /\ UNCHANGED cicdOthers

\* _should_execute_step without its second test: every dependency is
\* recorded, whatever its status
DependenciesRecorded(deps, steps) ==
    \A k \in DOMAIN deps : deps[k] \in DOMAIN steps

\* _should_execute_step: every dependency is recorded with status success
_should_execute_step(deps, steps) ==
    \A k \in DOMAIN deps :
        deps[k] \in DOMAIN steps /\ steps[deps[k]] = "success"

\* execution.steps[step.id] = result
RecordStep(steps, id, status) ==
    [x \in DOMAIN steps \cup {id} |-> IF x = id THEN status ELSE steps[x]]

\* A step whose dependencies are not all successful is recorded skipped.
SkipStep ==
    /\ cpc = "loop"
    /\ stepIdx <= pipeline.n
    /\ ~_should_execute_step(pipeline.deps[stepIdx], execSteps)
    /\ execSteps' = RecordStep(execSteps, stepIdx, "skipped")
    /\ stepIdx' = stepIdx + 1
    /\ UNCHANGED <<pipeline, srcDirExists, execLogs, execStatus, execEnded, cpc,
                   cancelPc, cancelled>>
    /\ UNCHANGED cicdOthers

\* _execute_step is entered for the step: its command is being run.
StartStep ==
    /\ cpc = "loop"
    /\ stepIdx <= pipeline.n
    /\ _should_execute_step(pipeline.deps[stepIdx], execSteps)
    /\ cpc' = "step"
    /\ UNCHANGED <<pipeline, srcDirExists, execLogs, execStatus, execSteps, execEnded,
                   stepIdx, cancelPc, cancelled>>
    /\ UNCHANGED cicdOthers

\* _execute_step returned: the result is recorded; a failed step without
\* continue_on_failure, or a failed quality gate, sets FAILED and leaves
\* the loop.  Only the quality gate writes a line to execution.logs.
FinishStep(outcome, continue_on_failure, gateOk) ==
    /\ cpc = "step"
    /\ execSteps' = RecordStep(execSteps, stepIdx, outcome)
    /\ IF (outcome = "failed" /\ ~continue_on_failure) \/ ~gateOk
       THEN /\ execStatus' = "failed"
            /\ cpc' = "final"
            /\ UNCHANGED stepIdx
       ELSE /\ stepIdx' = stepIdx + 1
            /\ cpc' = "loop"
            /\ UNCHANGED execStatus
    /\ execLogs' = IF ~(outcome = "failed" /\ ~continue_on_failure) /\ ~gateOk
                   THEN Append(execLogs, "Quality gate failed for step")
                   ELSE execLogs
    /\ UNCHANGED <<pipeline, srcDirExists, execEnded, cancelPc, cancelled>>
    /\ UNCHANGED cicdOthers

\* The loop over pipeline.steps is exhausted.
StepsDone ==
    /\ cpc = "loop"
    /\ stepIdx > pipeline.n
    /\ cpc' = "final"
    /\ UNCHANGED <<pipeline, srcDirExists, execLogs, execStatus, execSteps, execEnded,
                   stepIdx, cancelPc, cancelled>>
    /\ UNCHANGED cicdOthers

\* "if execution.status == PipelineStatus.RUNNING": the read
FinalCheck ==
    /\ cpc = "final"
    /\ cpc' = IF execStatus = "running" THEN "setsuccess" ELSE "finish"
    /\ UNCHANGED <<pipeline, srcDirExists, execLogs, execStatus, execSteps, execEnded,
                   stepIdx, cancelPc, cancelled>>
    /\ UNCHANGED cicdOthers

\* "execution.status = PipelineStatus.SUCCESS": the write
SetSuccess ==
    /\ cpc = "setsuccess"
    /\ execStatus' = "success"
    /\ cpc' = "finish"
    /\ UNCHANGED <<pipeline, srcDirExists, execLogs, execSteps, execEnded, stepIdx,
                   cancelPc, cancelled>>
    /\ UNCHANGED cicdOthers

\* end_time, metrics, notifications, workspace cleanup
FinishPipeline ==
    /\ cpc = "finish"
    /\ execEnded' = TRUE
    /\ cpc' = "done"
    /\ UNCHANGED <<pipeline, srcDirExists, execLogs, execStatus, execSteps, stepIdx,
                   cancelPc, cancelled>>
    /\ UNCHANGED cicdOthers

\* cancel_pipeline_execution up to its test of the status: it goes on only
\* for a RUNNING execution, and returns False otherwise.
CancelCheck ==
    /\ cancelPc = "idle"
    /\ execStatus # "none"
    /\ cancelPc' = IF execStatus = "running" THEN "set" ELSE "idle"
    /\ UNCHANGED <<pipeline, srcDirExists, execLogs, execStatus, execSteps, execEnded,
                   cpc, stepIdx, cancelled>>
    /\ UNCHANGED cicdOthers

\* cancel_pipeline_execution: CANCELLED, end_time, return True
CancelSet ==
    /\ cancelPc = "set"
    /\ execStatus' = "cancelled"
    /\ execEnded' = TRUE
    /\ cancelled' = TRUE
    /\ cancelPc' = "idle"
    /\ UNCHANGED <<pipeline, srcDirExists, execLogs, execSteps, cpc, stepIdx>>
    /\ UNCHANGED cicdOthers

CicdNext ==
    \/ trigger_pipeline
    \/ WorkerStart
    \/ CloneRepository
    \/ SkipStep
    \/ StartStep
    \/ \E o \in StepOutcomes, cof \in BOOLEAN, g \in BOOLEAN : FinishStep(o, cof, g)
    \/ StepsDone
    \/ FinalCheck
    \/ SetSuccess
    \/ FinishPipeline
    \/ CancelCheck
    \/ CancelSet

\* ------------------------------------------------------------- RPAEngine
\* RPAEngine.__init__: no workflow, no execution
RpaIdle ==
    /\ nActions = 0
    /\ rStatus = "none"
    /\ action_results = <<>>
    /\ rpc = "idle"
    /\ actIdx = 0
    /\ rEnded = FALSE
    /\ rCancelled = FALSE

\* An engine with one registered workflow.
RpaInit ==
    /\ nActions \in 0..MaxActions
    /\ rStatus = "none"
    /\ action_results = <<>>
    /\ rpc = "idle"
    /\ actIdx = 0
    /\ rEnded = FALSE
    /\ rCancelled = FALSE

\* What _execute_action_with_retry can return as the result's status:
\* COMPLETED, FAILED, or the initial RUNNING when no attempt is made.
ActionOutcomes == {"completed", "failed", "running"}

\* execute_workflow: the execution is created RUNNING and submitted.
execute_workflow ==
    /\ rpc = "idle"
    /\ rStatus' = "running"
    /\ rpc' = "check"
    /\ actIdx' = 1
    /\ UNCHANGED <<nActions, action_results, rEnded, rCancelled>>
    /\ UNCHANGED rpaOthers

\* The loop's test that never sees a cancellation
NeverCancelSeen(status) == FALSE

\* "if execution.status == ExecutionStatus.CANCELLED: break"
CancelSeen(status) == status = "cancelled"

\* The head of one loop iteration: the cancellation test.
CheckCancelled ==
    /\ rpc = "check"
    /\ actIdx <= nActions
    /\ rpc' = IF CancelSeen(rStatus) THEN "after" ELSE "passed"
    /\ UNCHANGED <<nActions, rStatus, action_results, actIdx, rEnded, rCancelled>>
    /\ UNCHANGED rpaOthers

\* The log entry is written and _execute_action_with_retry is entered.
StartAction ==
    /\ rpc = "passed"
    /\ rpc' = "exec"
    /\ UNCHANGED <<nActions, rStatus, action_results, actIdx, rEnded, rCancelled>>
    /\ UNCHANGED rpaOthers

\* _execute_action_with_retry returned: the result is recorded; a FAILED
\* result sets the execution FAILED and leaves the loop.
FinishAction(outcome) ==
    /\ rpc = "exec"
    /\ action_results' = Append(action_results, outcome)
    /\ IF outcome = "failed"
       THEN /\ rStatus' = "failed"
            /\ rpc' = "after"
            /\ UNCHANGED actIdx
       ELSE /\ actIdx' = actIdx + 1
            /\ rpc' = "check"
            /\ UNCHANGED rStatus
    /\ UNCHANGED <<nActions, rEnded, rCancelled>>
    /\ UNCHANGED rpaOthers

\* The loop over workflow.actions is exhausted.
ActionsDone ==
    /\ rpc = "check"
    /\ actIdx > nActions
    /\ rpc' = "after"
    /\ UNCHANGED <<nActions, rStatus, action_results, actIdx, rEnded, rCancelled>>
    /\ UNCHANGED rpaOthers

\* "if execution.status == ExecutionStatus.RUNNING": the read
AfterLoopCheck ==
    /\ rpc = "after"
    /\ rpc' = IF rStatus = "running" THEN "setcompleted" ELSE "finally"
    /\ UNCHANGED <<nActions, rStatus, action_results, actIdx, rEnded, rCancelled>>
    /\ UNCHANGED rpaOthers

\* "execution.status = ExecutionStatus.COMPLETED": the write
SetCompleted ==
    /\ rpc = "setcompleted"
    /\ rStatus' = "completed"
    /\ rpc' = "finally"
    /\ UNCHANGED <<nActions, action_results, actIdx, rEnded, rCancelled>>
    /\ UNCHANGED rpaOthers

\* finally: end_time, stop_browser
FinallyBlock ==
    /\ rpc = "finally"
    /\ rEnded' = TRUE
    /\ rpc' = "done"
    /\ UNCHANGED <<nActions, rStatus, action_results, actIdx, rCancelled>>
    /\ UNCHANGED rpaOthers

\* cancel_execution for the execution: CANCELLED whatever the status was,
\* return True.
cancel_execution ==
    /\ rStatus # "none"
    /\ rStatus' = "cancelled"
    /\ rCancelled' = TRUE
    /\ UNCHANGED <<nActions, action_results, rpc, actIdx, rEnded>>
    /\ UNCHANGED rpaOthers

RpaNext ==
    \/ execute_workflow
    \/ CheckCancelled
    \/ StartAction
    \/ \E o \in ActionOutcomes : FinishAction(o)
    \/ ActionsDone
    \/ AfterLoopCheck
    \/ SetCompleted
    \/ FinallyBlock
    \/ cancel_execution

\* ----------------------------------------------- EnterpriseSecurityScanner
Targets == {"t1", "t2"}
TargetLists == UNION {[1..k -> Targets] : k \in 0..MaxTargets}
Severities == {"critical", "high", "medium", "low"}

\* SecurityScanResult, with the fields the scanner reads again
SecurityScanResult(severity, category, target) ==
    [severity |-> severity, category |-> category,
     affected_resources |-> <<target>>]

_scan_network_security(target) ==
    <<SecurityScanResult("medium", "network_security", target)>>

_scan_application_security(target) ==
    <<SecurityScanResult("high", "application_security", target)>>

_check_compliance(target) ==
    <<SecurityScanResult("low", "compliance", target)>>

\* A target scan that leaves the compliance check out
ScanWithoutCompliance(target) ==
    _scan_network_security(target) \o _scan_application_security(target)

\* _scan_target: network, application, compliance, in this order
_scan_target(target) ==
    _scan_network_security(target) \o _scan_application_security(target)
        \o _check_compliance(target)

\* The loop over gather's results, which are in the order of the targets:
\* every result is a list and is flattened into valid_results.
RECURSIVE ValidResults(_)
ValidResults(targets) ==
    IF targets = <<>> THEN <<>>
    ELSE _scan_target(Head(targets)) \o ValidResults(Tail(targets))

\* scan_results after k earlier scans of one target each
RECURSIVE PriorResults(_)
PriorResults(k) ==
    IF k = 0 THEN <<>> ELSE PriorResults(k - 1) \o ValidResults(<<"t0">>)

NoOut == [op |-> "none", value |-> <<>>]

\* EnterpriseSecurityScanner.__init__
ScanIdle ==
    /\ scan_results = <<>>
    /\ scanTargets = <<>>
    /\ scanDone = {}
    /\ scanPc = "idle"
    /\ nscans = 0
    /\ returnedTotal = 0
    /\ mocked = 0
    /\ scanOut = NoOut

\* A scanner that has made up to MaxPriorScans scans of one target each.
ScanInit ==
    \E k \in 0..MaxPriorScans :
        /\ scan_results = PriorResults(k)
        /\ scanTargets = <<>>
        /\ scanDone = {}
        /\ scanPc = "idle"
        /\ nscans = 0
        /\ returnedTotal = Len(PriorResults(k))
        /\ mocked = 0
        /\ scanOut = NoOut

\* scan_infrastructure up to "await asyncio.gather": one task per target
scan_infrastructure(targets) ==
    /\ scanPc = "idle"
    /\ nscans < MaxScans
    /\ nscans' = nscans + 1
    /\ scanTargets' = targets
    /\ scanDone' = {}
    /\ scanPc' = "scanning"
    /\ scanOut' = [op |-> "scanning", value |-> <<>>]
    /\ UNCHANGED <<scan_results, returnedTotal, mocked>>
    /\ UNCHANGED scanOthers

\* One _scan_target task runs to its end; the tasks finish in any order.
ScanTargetDone(i) ==
    /\ scanPc = "scanning"
    /\ i \in DOMAIN scanTargets \ scanDone
    /\ scanDone' = scanDone \cup {i}
    /\ UNCHANGED <<scan_results, scanTargets, scanPc, nscans, returnedTotal,
                   mocked, scanOut>>
    /\ UNCHANGED scanOthers

\* gather returned: the results are flattened, appended to scan_results
\* and returned.
ScanReturn ==
    /\ scanPc = "scanning"
    /\ scanDone = DOMAIN scanTargets
    /\ LET valid_results == ValidResults(scanTargets)
       IN  /\ scan_results' = scan_results \o valid_results
           /\ returnedTotal' = returnedTotal + Len(valid_results)
           /\ scanOut' = [op |-> "scan_infrastructure", value |-> valid_results]
    /\ scanPc' = "idle"
    /\ UNCHANGED <<scanTargets, scanDone, nscans, mocked>>
    /\ UNCHANGED scanOthers

\* The caller puts a result of its own into scan_results, as the tests do.
AppendMockResult(severity) ==
    /\ mocked < MaxMocks
    /\ mocked' = mocked + 1
    /\ scan_results' = Append(scan_results,
                              SecurityScanResult(severity, "test", "test"))
    /\ scanOut' = [op |-> "mock", value |-> <<>>]
    /\ UNCHANGED <<scanTargets, scanDone, scanPc, nscans, returnedTotal>>
    /\ UNCHANGED scanOthers

\* recommendations.append(...) in the place of insert(0, ...)
AppendLast(recommendations, r) == Append(recommendations, r)

\* recommendations.insert(0, r)
InsertFirst(recommendations, r) == <<r>> \o recommendations

\* sum(1 for r in self.scan_results if r.severity == "high")
RECURSIVE high_severity_count(_)
high_severity_count(rs) ==
    IF rs = <<>> THEN 0
    ELSE (IF Head(rs).severity = "high" THEN 1 ELSE 0)
             + high_severity_count(Tail(rs))

_generate_recommendations(rs) ==
    LET recommendations ==
            <<"Implement regular security scanning in CI/CD pipeline",
              "Establish incident response procedures",
              "Conduct regular security awareness training",
              "Implement zero-trust network architecture",
              "Enable comprehensive audit logging">>
    IN  IF high_severity_count(rs) > 0
        THEN InsertFirst(recommendations,
                         "Address high-severity vulnerabilities immediately")
        ELSE recommendations

\* The loop "severity_counts[result.severity] += 1"
RECURSIVE CountSeverities(_, _)
CountSeverities(rs, severity_counts) ==
    IF rs = <<>> THEN severity_counts
    ELSE CountSeverities(Tail(rs),
             [severity_counts EXCEPT ![Head(rs).severity] = @ + 1])

\* The score without its floor
UnclampedScore(a, b) == b

\* max(0, ...)
ScoreMax(a, b) == IF a >= b THEN a ELSE b

generate_compliance_report(rs) ==
    IF rs = <<>>
    THEN [error |-> "No scan results available"]
    ELSE LET severity_counts ==
                 CountSeverities(rs, [s \in Severities |-> 0])
             critical_high_issues ==
                 severity_counts["critical"] + severity_counts["high"]
             compliance_score ==
                 ScoreMax(0, 100 - (critical_high_issues * 10)
                                 - (severity_counts["medium"] * 5))
         IN  [scan_summary |->
                  [total_issues |-> Len(rs),
                   severity_breakdown |-> severity_counts,
                   compliance_score |-> compliance_score],
              recommendations |-> _generate_recommendations(rs)]

GenerateComplianceReport ==
    /\ scanOut' = [op |-> "generate_compliance_report",
                   value |-> generate_compliance_report(scan_results)]
    /\ UNCHANGED <<scan_results, scanTargets, scanDone, scanPc, nscans,
                   returnedTotal, mocked>>
    /\ UNCHANGED scanOthers

GenerateRecommendations ==
    /\ scanOut' = [op |-> "_generate_recommendations",
                   value |-> _generate_recommendations(scan_results)]
    /\ UNCHANGED <<scan_results, scanTargets, scanDone, scanPc, nscans,
                   returnedTotal, mocked>>
    /\ UNCHANGED scanOthers

ScanNext ==
    \/ \E targets \in TargetLists : scan_infrastructure(targets)
    \/ \E i \in DOMAIN scanTargets : ScanTargetDone(i)
    \/ ScanReturn
    \/ \E severity \in Severities : AppendMockResult(severity)
    \/ GenerateComplianceReport
    \/ GenerateRecommendations

\* ------------------------------------------------------- WorkloadScheduler
WorkloadIds == {"w1", "w2"}
NodeStatuses == {"online", "offline", "overloaded"}

\* EdgeNode with the fields find_suitable_nodes reads, next to the latest
\* ResourceUsage of the node (cpu_percent 0 when none was reported).
\* Memory and storage go through the same test as the CPU does and are
\* taken as sufficient.
EdgeNode(status, cpu_cores, cpu_percent) ==
    [status |-> status, cpu_cores |-> cpu_cores, cpu_percent |-> cpu_percent]

EdgeNodes == {EdgeNode(s, c, p) : s \in {"online"}, c \in {1, 2}, p \in {0, 50}}

\* resource_requirements['cpu_cores'] of the two workloads
required_cpu(workload_id) == IF workload_id = "w1" THEN 1 ELSE 2

NoEdgeOut == [op |-> "none", w |-> "none", n |-> 0, outcome |-> "none",
              returned |-> <<>>]

\* EdgeNodeManager.__init__, WorkloadScheduler.__init__
EdgeIdle ==
    /\ nodes = <<>>
    /\ workloads = {}
    /\ deployments = <<>>
    /\ edgeCalls = 0
    /\ edgeOut = NoEdgeOut

\* A scheduler with its nodes registered and one or both workloads
\* registered.
EdgeInit ==
    /\ nodes \in UNION {[1..k -> EdgeNodes] : k \in 0..MaxNodes}
    /\ workloads \in {{"w1"}, {"w1", "w2"}}
    /\ deployments = <<>>
    /\ edgeCalls = 0
    /\ edgeOut = NoEdgeOut

\* available_cpu >= required_cpu, with
\* available_cpu = node.cpu_cores * (1 - cpu_percent / 100)
EnoughCpu(node, req) == node.cpu_cores * (100 - node.cpu_percent) >= req * 100

\* The test of find_suitable_nodes on one node
Suitable(node, req) == node.status = "online" /\ EnoughCpu(node, req)

\* _calculate_node_load, times 10: memory and storage usage are 0
_calculate_node_load(node) == node.cpu_percent * 4

\* list.sort(key=load), which is stable: insertion from the right end
RECURSIVE InsertByLoad(_, _, _)
InsertByLoad(ns, sorted, i) ==
    IF sorted = <<>> THEN <<i>>
    ELSE IF _calculate_node_load(ns[sorted[Len(sorted)]])
                <= _calculate_node_load(ns[i])
    THEN Append(sorted, i)
    ELSE Append(InsertByLoad(ns, SubSeq(sorted, 1, Len(sorted) - 1), i),
                sorted[Len(sorted)])

RECURSIVE SortByLoad(_, _)
SortByLoad(ns, ids) ==
    IF ids = <<>> THEN <<>>
    ELSE InsertByLoad(ns, SortByLoad(ns, SubSeq(ids, 1, Len(ids) - 1)),
                      ids[Len(ids)])

\* The ids (positions) of the suitable nodes, in the order of self.nodes
RECURSIVE SuitableIds(_, _, _)
SuitableIds(ns, req, i) ==
    IF i > Len(ns) THEN <<>>
    ELSE (IF Suitable(ns[i], req) THEN <<i>> ELSE <<>>)
             \o SuitableIds(ns, req, i + 1)

\* A slice that keeps the whole list
TakeAll(s, count) == s

\* suitable_nodes[:count], for count >= 0
TakeFirst(s, count) == SubSeq(s, 1, IF count < Len(s) THEN count ELSE Len(s))

find_suitable_nodes(ns, req, count) ==
    TakeFirst(SortByLoad(ns, SuitableIds(ns, req, 1)), count)

\* WorkloadDeployment after _deploy_to_node succeeded
WorkloadDeployment(workload_id, node_id) ==
    [workload_id |-> workload_id, node_id |-> node_id, status |-> "running"]

\* The deployments schedule_workload adds: one per node found
NewDeployments(ns, workload_id, replicas) ==
    LET found == find_suitable_nodes(ns, required_cpu(workload_id), replicas)
    IN  [i \in 1..Len(found) |-> WorkloadDeployment(workload_id, found[i])]

\* The ids (positions) of the running deployments of the workload, in the
\* order of self.deployments
RECURSIVE current_deployments(_, _, _)
current_deployments(ds, workload_id, i) ==
    IF i > Len(ds) THEN <<>>
    ELSE (IF ds[i].workload_id = workload_id /\ ds[i].status = "running"
          THEN <<i>> ELSE <<>>)
             \o current_deployments(ds, workload_id, i + 1)

\* The ids of the deployments appended to ds by a call
AddedIds(ds, new) == [i \in 1..Len(new) |-> Len(ds) + i]

EdgeCalled(op, w, n, outcome, returned) ==
    /\ edgeCalls < MaxEdgeCalls
    /\ edgeCalls' = edgeCalls + 1
    /\ edgeOut' = [op |-> op, w |-> w, n |-> n, outcome |-> outcome,
                   returned |-> returned]

schedule_workload(workload_id, replicas) ==
    /\ IF workload_id \notin workloads
       THEN /\ EdgeCalled("schedule_workload", workload_id, replicas,
                          "ValueError", <<>>)
            /\ UNCHANGED deployments
       ELSE LET new == NewDeployments(nodes, workload_id, replicas)
            IN  /\ deployments' = deployments \o new
                /\ EdgeCalled("schedule_workload", workload_id, replicas,
                              "returned", AddedIds(deployments, new))
    /\ UNCHANGED <<nodes, workloads>>
    /\ UNCHANGED edgeOthers

\* stop_deployment of every deployment of the list
StopAll(ds, ids) ==
    [i \in DOMAIN ds |->
        IF \E k \in DOMAIN ids : ids[k] = i
        THEN [ds[i] EXCEPT !.status = "stopped"] ELSE ds[i]]

stop_deployment(d) ==
    /\ d \in DOMAIN deployments
    /\ deployments' = StopAll(deployments, <<d>>)
    /\ EdgeCalled("stop_deployment", deployments[d].workload_id, d,
                  "returned", <<>>)
    /\ UNCHANGED <<nodes, workloads>>
    /\ UNCHANGED edgeOthers

scale_workload(workload_id, target_replicas) ==
    /\ LET current == current_deployments(deployments, workload_id, 1)
           current_replicas == Len(current)
       IN  IF target_replicas > current_replicas
           THEN IF workload_id \notin workloads
                THEN /\ EdgeCalled("scale_workload", workload_id,
                                   target_replicas, "ValueError", <<>>)
                     /\ UNCHANGED deployments
                ELSE LET new == NewDeployments(nodes, workload_id,
                                    target_replicas - current_replicas)
                     IN  /\ deployments' = deployments \o new
                         /\ EdgeCalled("scale_workload", workload_id,
                                       target_replicas, "returned",
                                       AddedIds(deployments, new))
           ELSE IF target_replicas < current_replicas
           THEN LET deployments_to_stop ==
                        TakeFirst(current, current_replicas - target_replicas)
                IN  /\ deployments' = StopAll(deployments, deployments_to_stop)
                    /\ EdgeCalled("scale_workload", workload_id,
                                  target_replicas, "returned",
                                  deployments_to_stop)
           ELSE /\ UNCHANGED deployments
                /\ EdgeCalled("scale_workload", workload_id, target_replicas,
                              "returned", <<>>)
    /\ UNCHANGED <<nodes, workloads>>
    /\ UNCHANGED edgeOthers

\* update_node_status(node_id, status, resource_usage) for a registered node
update_node_status(i, status, cpu_percent) ==
    /\ i \in DOMAIN nodes
    /\ nodes' = [nodes EXCEPT ![i].status = status,
                              ![i].cpu_percent = cpu_percent]
    /\ EdgeCalled("update_node_status", "none", i, "returned", <<>>)
    /\ UNCHANGED <<workloads, deployments>>
    /\ UNCHANGED edgeOthers

EdgeNext ==
    \/ \E w \in WorkloadIds, n \in 1..MaxReplicas : schedule_workload(w, n)
    \/ \E d \in 1..(MaxNodes * MaxEdgeCalls) : stop_deployment(d)
    \/ \E w \in WorkloadIds, n \in 0..MaxReplicas : scale_workload(w, n)
    \/ \E i \in 1..MaxNodes, s \in NodeStatuses, p \in {0, 50} :
           update_node_status(i, s, p)

\* ------------------------------------------- CICDPipelineManager: artifacts
\* Identifiers are kept as the sequence of their parts between underscores:
\* "exec_p1_2" is <<"exec", "p1", 2>>.
PipelineIds == {"p1", "p2"}
Basenames == {"app.jar", "report.xml"}

\* execution_id = f"exec_{pipeline_id}_{int(time.time())}"
ExecutionId(pipeline_id, now) == <<"exec", pipeline_id, now>>

\* artifact_id = f"{execution_id}_{os.path.basename(pattern)}"
ArtifactId(execution_id, basename) == execution_id \o <<basename>>

\* artifact_path = os.path.join(work_dir, pattern): under the workspace of
\* the execution
ArtifactPath(execution_id, basename) ==
    [workspace |-> execution_id, pattern |-> basename]

\* artifact_id.split('_')[0]
FirstPart(parts) == <<Head(parts)>>

\* CICDPipelineManager.__init__
ArtIdle ==
    /\ executions = [x \in {} |-> 0]
    /\ artifacts_store = [x \in {} |-> 0]
    /\ today = 0
    /\ artCalls = 0
    /\ artOut = [op |-> "none", days |-> 0]

ArtInit == ArtIdle

ArtCalled(op, days) ==
    /\ artCalls < MaxArtCalls
    /\ artCalls' = artCalls + 1
    /\ artOut' = [op |-> op, days |-> days]

\* trigger_pipeline: self.executions[execution_id] = execution, started now
TriggerExecution(pipeline_id) ==
    /\ LET id == ExecutionId(pipeline_id, today)
       IN  executions' = [x \in DOMAIN executions \cup {id} |->
                            IF x = id THEN today ELSE executions[x]]
    /\ ArtCalled("trigger_pipeline", 0)
    /\ UNCHANGED <<artifacts_store, today>>
    /\ UNCHANGED artOthers

\* _collect_artifacts for one pattern whose file exists, in a step of the
\* execution
_collect_artifacts(execution_id, basename) ==
    /\ execution_id \in DOMAIN executions
    /\ LET id == ArtifactId(execution_id, basename)
       IN  artifacts_store' =
               [x \in DOMAIN artifacts_store \cup {id} |->
                   IF x = id THEN ArtifactPath(execution_id, basename)
                   ELSE artifacts_store[x]]
    /\ ArtCalled("_collect_artifacts", 0)
    /\ UNCHANGED <<executions, today>>
    /\ UNCHANGED artOthers

\* The artifact ids the first loop of cleanup_old_artifacts collects
artifacts_to_remove(store, execs, cutoff_date) ==
    {artifact_id \in DOMAIN store :
        LET execution_id == FirstPart(artifact_id)
        IN  /\ execution_id \in DOMAIN execs
            /\ execs[execution_id] < cutoff_date}

cleanup_old_artifacts(retention_days) ==
    /\ LET cutoff_date == today - retention_days
           remove == artifacts_to_remove(artifacts_store, executions, cutoff_date)
       IN  artifacts_store' =
               [x \in DOMAIN artifacts_store \ remove |-> artifacts_store[x]]
    /\ ArtCalled("cleanup_old_artifacts", retention_days)
    /\ UNCHANGED <<executions, today>>
    /\ UNCHANGED artOthers

\* A day passes.
NextDay ==
    /\ today < MaxDay
    /\ today' = today + 1
    /\ UNCHANGED <<executions, artifacts_store, artCalls, artOut>>
    /\ UNCHANGED artOthers

ArtNext ==
    \/ \E p \in PipelineIds : TriggerExecution(p)
    \/ \E p \in PipelineIds, t \in 0..MaxDay, b \in Basenames :
           _collect_artifacts(ExecutionId(p, t), b)
    \/ \E d \in 0..MaxRetention : cleanup_old_artifacts(d)
    \/ NextDay

\* --------------------------------------------------- EnterpriseBackupSystem
Files == {"f1", "f2"}
BackupTypes == {"full", "incremental", "differential"}
NoSince == -1   \* since_time is None

\* EnterpriseBackupSystem.__init__: no job, no execution
BackupIdle ==
    /\ backup_type = "none"
    /\ mtime = [f \in Files |-> 0]
    /\ bexecs = [t \in {} |-> 0]
    /\ bnow = 0
    /\ lastExec = -1

\* A system with one source directory and one job on it.
BackupInit ==
    /\ backup_type \in BackupTypes
    /\ mtime = [f \in Files |-> 0]
    /\ bexecs = [t \in {} |-> 0]
    /\ bnow = 0
    /\ lastExec = -1

\* The start times of the job's executions that pass the filter
StartTimes(execs, types) ==
    {execs[t].start_time : t \in {x \in DOMAIN execs :
        execs[x].status = "completed" /\ execs[x].backup_type \in types}}

\* max(job_executions, key=start_time).start_time, or None
LatestOf(times) ==
    IF times = {} THEN NoSince
    ELSE CHOOSE t \in times : \A u \in times : u <= t

\* _get_last_backup_time: the last COMPLETED execution of the job
_get_last_backup_time(execs) == LatestOf(StartTimes(execs, BackupTypes))

\* _get_last_full_backup_time: the last COMPLETED execution of the job
\* whose backup_type is FULL
_get_last_full_backup_time(execs) == LatestOf(StartTimes(execs, {"full"}))

\* since_time handed to _backup_source by the three _perform_*_backup
SinceTime(type, execs) ==
    IF type = "full" THEN NoSince
    ELSE IF type = "incremental" THEN _get_last_backup_time(execs)
    ELSE _get_last_full_backup_time(execs)

\* "if since_time and file_mtime <= since_time: continue"
Skipped(file_mtime, since_time) ==
    since_time # NoSince /\ file_mtime <= since_time

\* _backup_directory: the files copied
CopiedFiles(mt, since_time) == {f \in Files : ~Skipped(mt[f], since_time)}

\* BackupExecution(id, job_id, backup_type=job.backup_type, start_time=now)
\* at the end of execute_backup_job
BackupExecution(type, now, status, copied) ==
    [backup_type |-> type, start_time |-> now, status |-> status,
     copied |-> copied]

\* execute_backup_job(job_id): the id is exec_<job>_<second>, so an
\* execution replaces an earlier one of the same second.  The steps after
\* the copy (compress, verify, upload, cleanup) may raise: FAILED.
execute_backup_job(status) ==
    /\ LET since_time == SinceTime(backup_type, bexecs)
           execution == BackupExecution(backup_type, bnow, status,
                                        CopiedFiles(mtime, since_time))
       IN  bexecs' = [t \in DOMAIN bexecs \cup {bnow} |->
                         IF t = bnow THEN execution ELSE bexecs[t]]
    /\ lastExec' = bnow
    /\ UNCHANGED <<backup_type, mtime, bnow>>
    /\ UNCHANGED backupOthers

\* add_backup_job with the id of the job: the job is replaced
add_backup_job(type) ==
    /\ type # backup_type
    /\ backup_type' = type
    /\ lastExec' = -1
    /\ UNCHANGED <<mtime, bexecs, bnow>>
    /\ UNCHANGED backupOthers

\* A file of the source is written.
ModifyFile(f) ==
    /\ mtime[f] # bnow
    /\ mtime' = [mtime EXCEPT ![f] = bnow]
    /\ lastExec' = -1
    /\ UNCHANGED <<backup_type, bexecs, bnow>>
    /\ UNCHANGED backupOthers

\* A second passes.
BackupTick ==
    /\ bnow < MaxBackupTime
    /\ bnow' = bnow + 1
    /\ lastExec' = -1
    /\ UNCHANGED <<backup_type, mtime, bexecs>>
    /\ UNCHANGED backupOthers

BackupNext ==
    \/ \E status \in {"completed", "failed"} : execute_backup_job(status)
    \/ \E type \in BackupTypes : add_backup_job(type)
    \/ \E f \in Files : ModifyFile(f)
    \/ BackupTick

\* ------------------------------------------------------------ VSphereClient
\* The client keeps no inventory: list_virtual_machines builds the same
\* five machines on every call.
vm_templates ==
    <<"web-server-01", "db-server-01", "app-server-01", "monitoring-01",
      "backup-server">>

VmNames == {vm_templates[i] : i \in DOMAIN vm_templates} \cup {"no-such-vm"}

NoVm == [name |-> "None", power_state |-> "None", tools_status |-> "None"]

\* VirtualMachine number i + 1 of the list: the enumerate index is i
VirtualMachine(i) ==
    [name |-> vm_templates[i + 1],
     power_state |-> IF i % 2 = 0 THEN "poweredOn" ELSE "poweredOff",
     tools_status |-> IF i % 2 = 0 THEN "toolsOk" ELSE "toolsNotInstalled"]

list_virtual_machines ==
    [k \in DOMAIN vm_templates |-> VirtualMachine(k - 1)]

\* get_vm_details: the first machine of that name, or None
get_vm_details(vm_name) ==
    LET vms == list_virtual_machines
        hits == {k \in DOMAIN vms : vms[k].name = vm_name}
    IN  IF hits = {} THEN NoVm
        ELSE vms[CHOOSE k \in hits : \A j \in hits : k <= j]

\* VSphereClient.__init__
VsIdle ==
    /\ vsCalls = 0
    /\ vsOut = [op |-> "none", name |-> "none", force |-> FALSE,
                result |-> FALSE]

VsInit == VsIdle

VsCalled(op, name, force, result) ==
    /\ vsCalls < MaxVsCalls
    /\ vsCalls' = vsCalls + 1
    /\ vsOut' = [op |-> op, name |-> name, force |-> force, result |-> result]

\* power_on_vm: False for a machine not found (the exception is caught),
\* True for a machine found, after the simulated boot time if it was off
power_on_vm(vm_name) ==
    /\ LET vm == get_vm_details(vm_name)
       IN  VsCalled("power_on_vm", vm_name, FALSE, vm # NoVm)
    /\ UNCHANGED vsOthers

\* power_off_vm: False for a machine not found, True for a machine found,
\* after the simulated shutdown if it was on
power_off_vm(vm_name, force) ==
    /\ LET vm == get_vm_details(vm_name)
       IN  VsCalled("power_off_vm", vm_name, force, vm # NoVm)
    /\ UNCHANGED vsOthers

GetVmDetails(vm_name) ==
    /\ VsCalled("get_vm_details", vm_name, FALSE,
                get_vm_details(vm_name) # NoVm)
    /\ UNCHANGED vsOthers

VsNext ==
    \/ \E n \in VmNames : power_on_vm(n)
    \/ \E n \in VmNames, force \in BOOLEAN : power_off_vm(n, force)
    \/ \E n \in VmNames : GetVmDetails(n)

\* ------------------------------------- CICDPipelineManager._execute_step
\* PipelineStep.retry_count is an int taken as given from the pipeline
\* specification (create_pipeline reads it with no test of its sign).
RetryCounts == {-1} \cup 0..MaxRetryCount

\* The return codes a command can give.
ReturnCodes == 0..MaxReturnCode

\* What one call of _run_command can do: return a result with a return
\* code, raise subprocess.TimeoutExpired, or raise another exception.
CommandResults ==
    {[raised |-> "none", return_code |-> c] : c \in ReturnCodes}
        \cup {[raised |-> e, return_code |-> -1] :
                 e \in {"TimeoutExpired", "Exception"}}

\* No _execute_step call yet.
StepIdle ==
    /\ retry_count = 0
    /\ stepPc = "idle"
    /\ attempt = 0
    /\ step_status = "none"
    /\ commandRuns = <<>>

\* A step with any retry_count, not yet executed.  Its artifacts list is
\* the default empty one.
StepInit ==
    /\ retry_count \in RetryCounts
    /\ stepPc = "idle"
    /\ attempt = 0
    /\ step_status = "none"
    /\ commandRuns = <<>>

\* range(step.retry_count + 1) still has a value for the loop variable
MoreAttempts(done, retries) == done < retries + 1

\* _execute_step up to its loop: step_result["status"] = "running"
EnterStep ==
    /\ stepPc = "idle"
    /\ step_status' = "running"
    /\ attempt' = 0
    /\ stepPc' = "loop"
    /\ UNCHANGED <<retry_count, commandRuns>>
    /\ UNCHANGED stepOthers

\* One iteration of "for attempt in range(step.retry_count + 1)": the
\* command is run.  Return code 0: success, break.  Another code: failed
\* if this was the last attempt, and on to the next value of the range.
\* TimeoutExpired: failed, break.  Any other exception leaves the loop
\* for the outer handler: failed, and the function goes to its return.
RunCommand(result) ==
    /\ stepPc = "loop"
    /\ MoreAttempts(attempt, retry_count)
    /\ commandRuns' = Append(commandRuns, result)
    /\ IF result.raised = "TimeoutExpired"
       THEN /\ step_status' = "failed"
            /\ stepPc' = "collect"
            /\ UNCHANGED attempt
       ELSE IF result.raised = "Exception"
       THEN /\ step_status' = "failed"
            /\ stepPc' = "return"
            /\ UNCHANGED attempt
       ELSE IF result.return_code = 0
       THEN /\ step_status' = "success"
            /\ stepPc' = "collect"
            /\ UNCHANGED attempt
       ELSE /\ step_status' = IF attempt = retry_count THEN "failed"
                              ELSE step_status
            /\ attempt' = attempt + 1
            /\ UNCHANGED stepPc
    /\ UNCHANGED retry_count
    /\ UNCHANGED stepOthers

\* The range is exhausted: the loop ends without a break.
AttemptsExhausted ==
    /\ stepPc = "loop"
    /\ ~MoreAttempts(attempt, retry_count)
    /\ stepPc' = "collect"
    /\ UNCHANGED <<retry_count, attempt, step_status, commandRuns>>
    /\ UNCHANGED stepOthers

\* _collect_artifacts over the empty list and _generate_step_metrics: the
\* status is left as it is.
CollectAndMeasure ==
    /\ stepPc = "collect"
    /\ stepPc' = "return"
    /\ UNCHANGED <<retry_count, attempt, step_status, commandRuns>>
    /\ UNCHANGED stepOthers

\* end_time is set and step_result returned.
ReturnStepResult ==
    /\ stepPc = "return"
    /\ stepPc' = "returned"
    /\ UNCHANGED <<retry_count, attempt, step_status, commandRuns>>
    /\ UNCHANGED stepOthers

StepNext ==
    \/ EnterStep
    \/ \E result \in CommandResults : RunCommand(result)
    \/ AttemptsExhausted
    \/ CollectAndMeasure
    \/ ReturnStepResult

\* ------------------------------------------------- PairProgrammingManager
SessionIds == {"s1", "s2"}
TaskNames == {"t1", "t2"}
ParticipantLists == {<<"uldyssian-sh", "necromancer-io">>, <<"solo">>}

NoTime == -1    \* PairSession.end_time is None
NoCall == [op |-> "none", sid |-> "none", outcome |-> "none", value |-> "none"]

\* PairProgrammingManager.__init__
PairIdle ==
    /\ sessions = [sid \in {} |-> {}]
    /\ clock = 0
    /\ lastCall = NoCall
    /\ ncalls = 0
    /\ addLog = [sid \in SessionIds |-> <<>>]
    /\ endLog = {}

PairInit == PairIdle

\* session_id in self.sessions
SessionExists(sess, sid) == sid \in DOMAIN sess

\* start_session's guard, taking an ended session for a free id
ExistsAndOpen(sess, sid) == sid \in DOMAIN sess /\ sess[sid].end_time = NoTime

\* start_session's guard: if session_id in self.sessions: raise ValueError
AlreadyExists(sess, sid) == sid \in DOMAIN sess

\* PairSession(session_id, participants, start_time) after __post_init__
PairSession(sid, participants, now) ==
    [session_id |-> sid, participants |-> participants, start_time |-> now,
     end_time |-> NoTime, tasks_completed |-> <<>>]

\* datetime.isoformat(): the text of a time
isoformat(t) == [iso |-> t]

\* timedelta.total_seconds() / 60, as a fraction
minutes(seconds) == [num |-> seconds, den |-> 60]

\* "if session.end_time:" with a time that is falsy at the clock's zero
TruthyNumber(end_time) == end_time # NoTime /\ end_time # 0

\* "if session.end_time:": None is falsy, every datetime is truthy
Truthy(end_time) == end_time # NoTime

\* get_session_metrics for an existing session
get_session_metrics(sess, sid) ==
    LET session == sess[sid]
        metrics == [session_id |-> session.session_id,
                    participants |-> session.participants,
                    start_time |-> isoformat(session.start_time),
                    tasks_completed |-> Len(session.tasks_completed),
                    task_list |-> session.tasks_completed]
    IN  IF Truthy(session.end_time)
        THEN [k \in DOMAIN metrics \cup {"end_time", "duration_minutes"} |->
                IF k = "end_time" THEN isoformat(session.end_time)
                ELSE IF k = "duration_minutes"
                THEN minutes(session.end_time - session.start_time)
                ELSE metrics[k]]
        ELSE metrics

\* tasks_completed.append(task) on a list every session shares
AppendToAll(sess, sid, t) ==
    [x \in DOMAIN sess |-> [sess[x] EXCEPT !.tasks_completed = Append(@, t)]]

\* self.sessions[session_id].tasks_completed.append(task)
AppendTask(sess, sid, t) ==
    [sess EXCEPT ![sid].tasks_completed = Append(@, t)]

\* self.sessions[session_id] = session
StoreSession(sess, sid, session) ==
    [x \in DOMAIN sess \cup {sid} |-> IF x = sid THEN session ELSE sess[x]]

Called(op, sid, outcome, value) ==
    /\ ncalls < MaxCalls
    /\ ncalls' = ncalls + 1
    /\ lastCall' = [op |-> op, sid |-> sid, outcome |-> outcome, value |-> value]

start_session(sid, participants) ==
    /\ IF AlreadyExists(sessions, sid)
       THEN /\ Called("start_session", sid, "ValueError", "none")
            /\ UNCHANGED sessions
       ELSE /\ sessions' = StoreSession(sessions, sid,
                                       PairSession(sid, participants, clock))
            /\ Called("start_session", sid, "returned",
                      PairSession(sid, participants, clock))
    /\ UNCHANGED <<clock, addLog, endLog>>
    /\ UNCHANGED pairOthers

end_session(sid) ==
    /\ IF ~SessionExists(sessions, sid)
       THEN /\ Called("end_session", sid, "ValueError", "none")
            /\ UNCHANGED <<sessions, endLog>>
       ELSE /\ sessions' = [sessions EXCEPT ![sid].end_time = clock]
            /\ Called("end_session", sid, "returned",
                      [sessions[sid] EXCEPT !.end_time = clock])
            /\ endLog' = endLog \cup {sid}
    /\ UNCHANGED <<clock, addLog>>
    /\ UNCHANGED pairOthers

add_task_completion(sid, t) ==
    /\ IF ~SessionExists(sessions, sid)
       THEN /\ Called("add_task_completion", sid, "ValueError", "none")
            /\ UNCHANGED <<sessions, addLog>>
       ELSE /\ sessions' = AppendTask(sessions, sid, t)
            /\ Called("add_task_completion", sid, "returned", "none")
            /\ addLog' = [addLog EXCEPT ![sid] = Append(@, t)]
    /\ UNCHANGED <<clock, endLog>>
    /\ UNCHANGED pairOthers

GetSessionMetrics(sid) ==
    /\ IF ~SessionExists(sessions, sid)
       THEN Called("get_session_metrics", sid, "ValueError", "none")
       ELSE Called("get_session_metrics", sid, "returned",
                   get_session_metrics(sessions, sid))
    /\ UNCHANGED <<sessions, clock, addLog, endLog>>
    /\ UNCHANGED pairOthers

\* The ValueError's text: f"Session {session_id} not found"
NotFoundMessage(sid) == <<"Session ", sid, " not found">>

\* An except branch that returns the exception's text alone
BareError(e) == e

\* except ValueError as e: return f"Error generating report: {e}"
ErrorReport(e) == <<"Error generating report: ">> \o e

\* The report text built from the metrics, as the sequence of its parts:
\* the duration section is there only with 'duration_minutes' in metrics.
ReportText(metrics) ==
    <<"# Pair Programming Session Report", metrics.session_id,
      metrics.participants, metrics.start_time, metrics.tasks_completed,
      "## Task List", metrics.task_list>>
    \o (IF "duration_minutes" \in DOMAIN metrics
        THEN <<"## Duration", metrics.duration_minutes>> ELSE <<>>)
    \o <<"## Achievement Progress">>

\* generate_pair_session_report(manager, session_id)
generate_pair_session_report(sid) ==
    /\ IF ~SessionExists(sessions, sid)
       THEN Called("generate_pair_session_report", sid, "returned",
                   ErrorReport(NotFoundMessage(sid)))
       ELSE Called("generate_pair_session_report", sid, "returned",
                   ReportText(get_session_metrics(sessions, sid)))
    /\ UNCHANGED <<sessions, clock, addLog, endLog>>
    /\ UNCHANGED pairOthers

\* Time passes between two calls.
Tick ==
    /\ clock < MaxClock
    /\ clock' = clock + 1
    /\ UNCHANGED <<sessions, lastCall, ncalls, addLog, endLog>>
    /\ UNCHANGED pairOthers

PairNext ==
    \/ \E sid \in SessionIds, ps \in ParticipantLists : start_session(sid, ps)
    \/ \E sid \in SessionIds : end_session(sid)
    \/ \E sid \in SessionIds, t \in TaskNames : add_task_completion(sid, t)
    \/ \E sid \in SessionIds : GetSessionMetrics(sid)
    \/ \E sid \in SessionIds : generate_pair_session_report(sid)
    \/ Tick

PairSpecInit == PairInit /\ PlanIdle /\ DeployIdle /\ CicdIdle /\ RpaIdle /\ ScanIdle /\ EdgeIdle /\ ArtIdle /\ BackupIdle /\ VsIdle /\ StepIdle

PairSpec == PairSpecInit /\ [][PairNext]_vars

\* An orchestrator with its configuration, and the resources parsed from an
\* infrastructure specification, all PENDING.
DeployInit ==
    /\ dplan \in PlansUpTo(MaxDeployResources, MaxDeployEdges)
    /\ providerOk \in [1..dplan.n -> BOOLEAN]
    /\ parallel_execution \in BOOLEAN
    /\ rollback_on_failure \in BOOLEAN
    /\ execution_order = <<>>
    /\ rollback_plan = <<>>
    /\ dpc = "spec"
    /\ resState = [i \in 1..dplan.n |-> "pending"]
    /\ registry = {}
    /\ results = NoResults
    /\ dependency_levels = <<>>
    /\ levelIdx = 0
    /\ awaitIdx = 0
    /\ task = [i \in 1..dplan.n |-> "none"]
    /\ seqIdx = 0
    /\ rbIdx = 0
    /\ rollback_results = <<>>

\* create_deployment_plan: execution order and its reverse, the rollback plan.
create_deployment_plan ==
    /\ dpc = "spec"
    /\ execution_order' = _calculate_execution_order(dplan)
    /\ rollback_plan' = Reverse(_calculate_execution_order(dplan))
    /\ dpc' = "planned"
    /\ UNCHANGED deployOthers
    /\ UNCHANGED <<dplan, providerOk, parallel_execution, rollback_on_failure,
                   resState, registry, results, dependency_levels, levelIdx,
                   awaitIdx, task, seqIdx, rbIdx, rollback_results>>

\* execute_deployment_plan up to the first await: execution_results is set
\* up and the mode chosen; in parallel mode the levels are computed.
ExecuteStart ==
    /\ dpc = "planned"
    /\ results' = [status |-> "running", resources |-> {}, errors |-> 0,
                   rollback |-> "absent"]
    /\ IF parallel_execution
       THEN /\ dependency_levels' = _group_by_dependency_level(dplan)
            /\ levelIdx' = 1
            /\ dpc' = "level"
            /\ UNCHANGED seqIdx
       ELSE /\ seqIdx' = 1
            /\ dpc' = "seq"
            /\ UNCHANGED <<dependency_levels, levelIdx>>
    /\ UNCHANGED deployOthers
    /\ UNCHANGED <<dplan, providerOk, parallel_execution, rollback_on_failure,
                   execution_order, rollback_plan, resState, registry,
                   awaitIdx, task, rbIdx, rollback_results>>

\* The end of execute_deployment_plan's try block and what follows it:
\* status "completed", end_time, the append to deployment_history, return.
Completed == [results EXCEPT !.status = "completed"]

\* The except branch: status "failed", the error recorded (after the one the
\* deployment loop recorded), then the rollback if it is configured.
Failed == [results EXCEPT !.status = "failed", !.errors = @ + 2]

\* One level of _execute_parallel_deployment is launched: a task is created
\* for each resource of the level; the tasks start, in order, as soon as the
\* loop awaits the first of them, each running up to its asyncio.sleep with
\* its resource CREATING.
LaunchLevel ==
    /\ dpc = "level"
    /\ levelIdx <= Len(dependency_levels)
    /\ LET ids == Range(dependency_levels[levelIdx].ids)
       IN  /\ task' = [i \in 1..dplan.n |-> IF i \in ids THEN "sleeping" ELSE task[i]]
           /\ resState' = [i \in 1..dplan.n |->
                              IF i \in ids THEN "creating" ELSE resState[i]]
    /\ awaitIdx' = 1
    /\ dpc' = "await"
    /\ UNCHANGED deployOthers
    /\ UNCHANGED <<dplan, providerOk, parallel_execution, rollback_on_failure,
                   execution_order, rollback_plan, registry, results,
                   dependency_levels, levelIdx, seqIdx, rbIdx, rollback_results>>

\* The loop over the levels is exhausted: the deployment completed.
ParallelDone ==
    /\ dpc = "level"
    /\ levelIdx > Len(dependency_levels)
    /\ results' = Completed
    /\ dpc' = "returned"
    /\ UNCHANGED deployOthers
    /\ UNCHANGED <<dplan, providerOk, parallel_execution, rollback_on_failure,
                   execution_order, rollback_plan, resState, registry,
                   dependency_levels, levelIdx, awaitIdx, task, seqIdx, rbIdx,
                   rollback_results>>

\* _deploy_resource after its sleep: an unsupported provider raises
\* ValueError; otherwise the resource is RUNNING and registered.
DeployFinish(r) ==
    /\ task[r] = "sleeping"
    /\ IF providerOk[r]
       THEN /\ task' = [task EXCEPT ![r] = "done"]
            /\ resState' = [resState EXCEPT ![r] = "running"]
            /\ registry' = registry \cup {r}
       ELSE /\ task' = [task EXCEPT ![r] = "raised"]
            /\ UNCHANGED <<resState, registry>>
    /\ UNCHANGED deployOthers
    /\ UNCHANGED <<dplan, providerOk, parallel_execution, rollback_on_failure,
                   execution_order, rollback_plan, dpc, results,
                   dependency_levels, levelIdx, awaitIdx, seqIdx, rbIdx,
                   rollback_results>>

\* What the failure handler does after recording the failure.
AfterFailure ==
    IF rollback_on_failure THEN "rollback" ELSE "returned"

\* "result = await task" of the parallel loop for the awaited task, once
\* that task has finished: its result is recorded, or its exception is
\* re-raised into execute_deployment_plan's handler.
AwaitTask ==
    /\ dpc = "await"
    /\ LET ids == dependency_levels[levelIdx].ids
           r   == ids[awaitIdx]
       IN  /\ task[r] \in {"done", "raised"}
           /\ IF task[r] = "done"
              THEN /\ results' = [results EXCEPT !.resources = @ \cup {r}]
                   /\ IF awaitIdx < Len(ids)
                      THEN /\ awaitIdx' = awaitIdx + 1
                           /\ UNCHANGED <<levelIdx, dpc>>
                      ELSE /\ levelIdx' = levelIdx + 1
                           /\ dpc' = "level"
                           /\ UNCHANGED awaitIdx
                   /\ UNCHANGED <<rbIdx, rollback_results>>
              ELSE /\ results' = Failed
                   /\ dpc' = AfterFailure
                   /\ rbIdx' = 1
                   /\ rollback_results' = <<>>
                   /\ UNCHANGED <<levelIdx, awaitIdx>>
    /\ UNCHANGED deployOthers
    /\ UNCHANGED <<dplan, providerOk, parallel_execution, rollback_on_failure,
                   execution_order, rollback_plan, resState, registry,
                   dependency_levels, task, seqIdx>>

\* _execute_sequential_deployment: the next resource of execution_order is
\* deployed, up to its asyncio.sleep.
SeqStart ==
    /\ dpc = "seq"
    /\ seqIdx <= Len(execution_order)
    /\ LET r == execution_order[seqIdx]
       IN  /\ task' = [task EXCEPT ![r] = "sleeping"]
           /\ resState' = [resState EXCEPT ![r] = "creating"]
    /\ dpc' = "seqwait"
    /\ UNCHANGED deployOthers
    /\ UNCHANGED <<dplan, providerOk, parallel_execution, rollback_on_failure,
                   execution_order, rollback_plan, registry, results,
                   dependency_levels, levelIdx, awaitIdx, seqIdx, rbIdx,
                   rollback_results>>

\* The awaited _deploy_resource of the sequential loop has finished.
SeqAwait ==
    /\ dpc = "seqwait"
    /\ LET r == execution_order[seqIdx]
       IN  /\ task[r] \in {"done", "raised"}
           /\ IF task[r] = "done"
              THEN /\ results' = [results EXCEPT !.resources = @ \cup {r}]
                   /\ seqIdx' = seqIdx + 1
                   /\ dpc' = "seq"
                   /\ UNCHANGED <<rbIdx, rollback_results>>
              ELSE /\ results' = Failed
                   /\ dpc' = AfterFailure
                   /\ rbIdx' = 1
                   /\ rollback_results' = <<>>
                   /\ UNCHANGED seqIdx
    /\ UNCHANGED deployOthers
    /\ UNCHANGED <<dplan, providerOk, parallel_execution, rollback_on_failure,
                   execution_order, rollback_plan, resState, registry,
                   dependency_levels, levelIdx, awaitIdx, task>>

\* The loop over execution_order is exhausted: the deployment completed.
SeqDone ==
    /\ dpc = "seq"
    /\ seqIdx > Len(execution_order)
    /\ results' = Completed
    /\ dpc' = "returned"
    /\ UNCHANGED deployOthers
    /\ UNCHANGED <<dplan, providerOk, parallel_execution, rollback_on_failure,
                   execution_order, rollback_plan, resState, registry,
                   dependency_levels, levelIdx, awaitIdx, task, seqIdx, rbIdx,
                   rollback_results>>

\* Whether _execute_rollback destroys the resource at a place of
\* rollback_plan: only one the failed execution recorded as deployed.
RollbackCovers(rid) == rid \in results.resources

\* One iteration of _execute_rollback's loop, up to _destroy_resource's
\* sleep (which it reaches only for a registered resource).
RollbackStep ==
    /\ dpc = "rollback"
    /\ rbIdx <= Len(rollback_plan)
    /\ LET rid == rollback_plan[rbIdx]
       IN  IF RollbackCovers(rid)
           THEN IF rid \in registry
                THEN /\ resState' = [resState EXCEPT ![rid] = "stopping"]
                     /\ dpc' = "destroying"
                     /\ UNCHANGED <<rbIdx, rollback_results>>
                ELSE /\ rollback_results' =
                          Append(rollback_results,
                                 [resource_id |-> rid, status |-> "destroyed"])
                     /\ rbIdx' = rbIdx + 1
                     /\ UNCHANGED <<resState, dpc>>
           ELSE /\ rbIdx' = rbIdx + 1
                /\ UNCHANGED <<resState, dpc, rollback_results>>
    /\ UNCHANGED deployOthers
    /\ UNCHANGED <<dplan, providerOk, parallel_execution, rollback_on_failure,
                   execution_order, rollback_plan, registry, results,
                   dependency_levels, levelIdx, awaitIdx, task, seqIdx>>

\* _destroy_resource after its sleep: TERMINATED and removed from the
\* registry; the rollback records the resource as destroyed.
DestroyFinish ==
    /\ dpc = "destroying"
    /\ LET rid == rollback_plan[rbIdx]
       IN  /\ resState' = [resState EXCEPT ![rid] = "terminated"]
           /\ registry' = registry \ {rid}
           /\ rollback_results' =
                 Append(rollback_results,
                        [resource_id |-> rid, status |-> "destroyed"])
    /\ rbIdx' = rbIdx + 1
    /\ dpc' = "rollback"
    /\ UNCHANGED deployOthers
    /\ UNCHANGED <<dplan, providerOk, parallel_execution, rollback_on_failure,
                   execution_order, rollback_plan, results, dependency_levels,
                   levelIdx, awaitIdx, task, seqIdx>>

\* The rollback loop is exhausted: results["rollback"] is set and
\* execute_deployment_plan returns.
RollbackDone ==
    /\ dpc = "rollback"
    /\ rbIdx > Len(rollback_plan)
    /\ results' = [results EXCEPT !.rollback = rollback_results]
    /\ dpc' = "returned"
    /\ UNCHANGED deployOthers
    /\ UNCHANGED <<dplan, providerOk, parallel_execution, rollback_on_failure,
                   execution_order, rollback_plan, resState, registry,
                   dependency_levels, levelIdx, awaitIdx, task, seqIdx, rbIdx,
                   rollback_results>>

DeployNext ==
    \/ create_deployment_plan
    \/ ExecuteStart
    \/ LaunchLevel
    \/ ParallelDone
    \/ \E r \in 1..dplan.n : DeployFinish(r)
    \/ AwaitTask
    \/ SeqStart
    \/ SeqAwait
    \/ SeqDone
    \/ RollbackStep
    \/ DestroyFinish
    \/ RollbackDone

DeploySpecInit == DeployInit /\ PlanIdle /\ PairIdle /\ CicdIdle /\ RpaIdle /\ ScanIdle /\ EdgeIdle /\ ArtIdle /\ BackupIdle /\ VsIdle /\ StepIdle

DeploySpec == DeploySpecInit /\ [][DeployNext]_vars

CicdSpecInit == CicdInit /\ PlanIdle /\ DeployIdle /\ PairIdle /\ RpaIdle /\ ScanIdle /\ EdgeIdle /\ ArtIdle /\ BackupIdle /\ VsIdle /\ StepIdle

CicdSpec == CicdSpecInit /\ [][CicdNext]_vars

RpaSpecInit == RpaInit /\ PlanIdle /\ DeployIdle /\ PairIdle /\ CicdIdle /\ ScanIdle /\ EdgeIdle /\ ArtIdle /\ BackupIdle /\ VsIdle /\ StepIdle

RpaSpec == RpaSpecInit /\ [][RpaNext]_vars

ScanSpecInit == ScanInit /\ PlanIdle /\ DeployIdle /\ PairIdle /\ CicdIdle /\ RpaIdle /\ EdgeIdle /\ ArtIdle /\ BackupIdle /\ VsIdle /\ StepIdle

ScanSpec == ScanSpecInit /\ [][ScanNext]_vars

EdgeSpecInit == EdgeInit /\ PlanIdle /\ DeployIdle /\ PairIdle /\ CicdIdle /\ RpaIdle /\ ScanIdle /\ ArtIdle /\ BackupIdle /\ VsIdle /\ StepIdle

EdgeSpec == EdgeSpecInit /\ [][EdgeNext]_vars

ArtSpecInit == ArtInit /\ PlanIdle /\ DeployIdle /\ PairIdle /\ CicdIdle /\ RpaIdle /\ ScanIdle /\ EdgeIdle /\ BackupIdle /\ VsIdle /\ StepIdle

ArtSpec == ArtSpecInit /\ [][ArtNext]_vars

BackupSpecInit == BackupInit /\ PlanIdle /\ DeployIdle /\ PairIdle /\ CicdIdle /\ RpaIdle /\ ScanIdle /\ EdgeIdle /\ ArtIdle /\ VsIdle /\ StepIdle

BackupSpec == BackupSpecInit /\ [][BackupNext]_vars

VsSpecInit == VsInit /\ PlanIdle /\ DeployIdle /\ PairIdle /\ CicdIdle /\ RpaIdle /\ ScanIdle /\ EdgeIdle /\ ArtIdle /\ BackupIdle /\ StepIdle

VsSpec == VsSpecInit /\ [][VsNext]_vars

StepSpecInit == StepInit /\ PlanIdle /\ DeployIdle /\ PairIdle /\ CicdIdle /\ RpaIdle /\ ScanIdle /\ EdgeIdle /\ ArtIdle /\ BackupIdle /\ VsIdle

StepSpec == StepSpecInit /\ [][StepNext]_vars

\* ------------------------------------------------------ claims: execution
\* C1: in parallel mode, for a plan with acyclic dependencies (whatever the
\* order its resources are listed in), the deployment of a resource starts
\* only after the deployment of each of its in-plan dependencies completed.
C1_DependenciesDeployedFirst ==
    [][(parallel_execution /\ Acyclic(dplan)) =>
          \A r \in 1..dplan.n :
              (resState[r] = "pending" /\ resState'[r] = "creating") =>
                  \A d \in PlanDeps(dplan, r) : task[d] = "done"]_vars

\* C5: when a deployment failed and rollback_on_failure is enabled, every
\* resource recorded in results["resources"] is destroyed, in the reverse
\* of the execution order: TERMINATED, out of the registry, and listed as
\* destroyed in results["rollback"].
C5_RollbackDestroysDeployed ==
    (dpc = "returned" /\ results.status = "failed" /\ rollback_on_failure) =>
        LET Deployed(x) == x \in results.resources
        IN  /\ \A r \in results.resources :
                  /\ resState[r] = "terminated"
                  /\ r \notin registry
                  /\ [resource_id |-> r, status |-> "destroyed"]
                        \in Range(results.rollback)
            /\ [i \in 1..Len(results.rollback) |-> results.rollback[i].resource_id]
                  = SelectSeq(Reverse(execution_order), Deployed)

\* C19: whenever execute_deployment_plan returns with status 'completed',
\* in parallel as well as in sequential mode and for plans with or without
\* dependency cycles, results['resources'] has an entry for every resource
\* of the plan and each of them is in the registry in state RUNNING.
C19_CompletedDeploysAll ==
    (dpc = "returned" /\ results.status = "completed") =>
        \A r \in 1..dplan.n :
            /\ r \in results.resources
            /\ r \in registry
            /\ resState[r] = "running"

\* C20: in parallel mode, after execute_deployment_plan has returned with
\* status 'failed' and rollback_on_failure enabled, no resource of the plan
\* is in the registry, and none is added to it later by a deployment task
\* that is still running.
C20_NothingLeftAfterFailure ==
    (dpc = "returned" /\ parallel_execution /\ rollback_on_failure
        /\ results.status = "failed") => registry = {}

\* --------------------------------------------------- claims: cancellation
\* C6: once cancel_pipeline_execution has returned True for an execution,
\* the execution's status remains CANCELLED forever (the worker never
\* overwrites it with SUCCESS or FAILED) and no further step of the
\* execution is started.
C6_CancelledStaysCancelled ==
    [][cancelled =>
          /\ execStatus' = "cancelled"
          /\ ~(cpc # "step" /\ cpc' = "step")]_vars

\* C7, as stated: after cancel_execution has returned True for an execution
\* whose actions are still being run, the worker starts no new action: it
\* never enters _execute_action_with_retry again.
C7_NoActionStartedAfterCancel ==
    [][rCancelled => ~(rpc # "exec" /\ rpc' = "exec")]_vars

\* C7, amended: after cancel_execution has returned True, no iteration of
\* the loop over the actions passes its cancellation test any more.  The
\* only action that can still be started, finished or recorded is the one
\* whose iteration had passed the test before the cancellation; all later
\* actions of the workflow are never executed.
C7_NoIterationBegunAfterCancel ==
    [][rCancelled =>
          /\ ~(rpc # "passed" /\ rpc' = "passed")
          /\ (rpc = "check" => action_results' = action_results)
          /\ Len(action_results') <= Len(action_results) + 1]_vars

\* A cancelled execution that has ended with actions left unexecuted, none
\* of the recorded ones having failed: the loop was left by the
\* cancellation test.
C7_Witness ==
    /\ rCancelled
    /\ rpc = "done"
    /\ Len(action_results) >= 1
    /\ Len(action_results) < nActions
    /\ \A i \in 1..Len(action_results) : action_results[i] # "failed"

\* ----------------------------------------------------- claims: step order
\* The recorded steps are a prefix of the declaration order, and the loop
\* stands right behind them.
StepsInDeclarationOrder ==
    /\ \A i \in DOMAIN execSteps : \A j \in 1..i : j \in DOMAIN execSteps
    /\ cpc \in {"loop", "step"} => DOMAIN execSteps = 1..(stepIdx - 1)

\* Every declared dependency of step i is an earlier step recorded success.
DependenciesSucceeded(i) ==
    \A k \in DOMAIN pipeline.deps[i] :
        LET d == pipeline.deps[i][k]
        IN  d \in DOMAIN execSteps /\ d < i /\ execSteps[d] = "success"

\* Step i depends, directly or transitively, on a step recorded failed or
\* skipped, or its chain of dependencies holds a step that names a step
\* declared no earlier than itself.
DependsOnFailedSkippedOrLater(i) ==
    \/ \E k \in Reaches(pipeline, i) :
          k \in DOMAIN execSteps /\ execSteps[k] \in {"failed", "skipped"}
    \/ \E a \in {i} \cup Reaches(pipeline, i) :
          \E b \in PlanDeps(pipeline, a) : b >= a

\* C21, as stated: the steps are considered in declaration order, a command
\* is run only if all dependencies of its step are recorded success, the
\* step being recorded skipped otherwise; and in an execution that got to
\* its steps, every step that depends, directly or transitively, on a
\* failed or skipped step or on a step declared later is recorded skipped.
C21_DependentsAlwaysSkipped ==
    /\ StepsInDeclarationOrder
    /\ cpc = "step" => DependenciesSucceeded(stepIdx)
    /\ (cpc = "done" /\ execLogs # <<"Pipeline execution failed">>) =>
          \A i \in 1..pipeline.n :
              DependsOnFailedSkippedOrLater(i) =>
                  i \in DOMAIN execSteps /\ execSteps[i] = "skipped"

\* C21, amended: the steps are considered in declaration order; a command
\* is run only if all dependencies of its step are earlier steps recorded
\* success; a step the loop gets to is recorded skipped exactly when that
\* is not so; hence every step the loop gets to that depends, directly or
\* transitively, on a failed or skipped step or on a step declared later is
\* recorded skipped.  Steps behind the point where the loop was left get no
\* record at all.
C21_ReachedDependentsSkipped ==
    /\ StepsInDeclarationOrder
    /\ cpc = "step" => DependenciesSucceeded(stepIdx)
    /\ \A i \in DOMAIN execSteps :
          /\ execSteps[i] = "skipped" <=> ~DependenciesSucceeded(i)
          /\ DependsOnFailedSkippedOrLater(i) => execSteps[i] = "skipped"

\* A finished execution in which a step was skipped though none of its own
\* dependencies failed: one of them was skipped because of a failed step
\* further down the chain.
C21_Witness ==
    /\ cpc = "done"
    /\ \E i \in DOMAIN execSteps :
          /\ execSteps[i] = "skipped"
          /\ \A d \in PlanDeps(pipeline, i) : d < i /\ execSteps[d] = "skipped"
          /\ PlanDeps(pipeline, i) # {}
          /\ \E k \in Reaches(pipeline, i) : execSteps[k] = "failed"

\* ---------------------------------------------------- claims: step retry
\* The call of _run_command returned with return code 0.
ReturnedZero(run) == run.raised = "none" /\ run.return_code = 0

\* What _execute_step has done when it returns: at most retry_count + 1
\* runs of the command, none after a run that returned 0 or timed out, and
\* the status success if some run returned 0 and failed otherwise.
RetryOutcome ==
    /\ Len(commandRuns) <= Max2(retry_count + 1, 0)
    /\ \A k \in 1..(Len(commandRuns) - 1) :
          /\ ~ReturnedZero(commandRuns[k])
          /\ commandRuns[k].raised # "TimeoutExpired"
    /\ step_status =
          IF \E k \in DOMAIN commandRuns : ReturnedZero(commandRuns[k])
          THEN "success" ELSE "failed"

\* C22: _execute_step runs the command at most retry_count + 1 times, stops
\* at the first attempt that returns 0, fails at once on a timeout, and for
\* every value of retry_count returns the status success if some attempt
\* returned 0 and failed otherwise, never running.
C22_RetryOutcomeForEveryRetryCount ==
    stepPc = "returned" => RetryOutcome

\* The same for the steps whose retry_count is not negative.
C22_RetryOutcomeForNonNegativeRetryCount ==
    (stepPc = "returned" /\ retry_count >= 0) => RetryOutcome

\* ------------------------------------------------ claims: successful run
\* Every dependency of every step is a step declared earlier.
DependenciesDeclaredEarlier ==
    \A i \in 1..pipeline.n :
        \A k \in DOMAIN pipeline.deps[i] : pipeline.deps[i][k] \in 1..(i - 1)

\* The execution has ended, it was not cancelled, no step that was run came
\* back other than success and no quality gate failed.
EndedWithNothingFailing ==
    /\ cpc = "done"
    /\ ~cancelled
    /\ DependenciesDeclaredEarlier
    /\ \A i \in DOMAIN execSteps : execSteps[i] \notin {"failed", "running"}
    /\ \A k \in DOMAIN execLogs : execLogs[k] # "Quality gate failed for step"

\* Every step is recorded success and the execution's status is SUCCESS.
AllStepsSucceeded ==
    /\ DOMAIN execSteps = 1..pipeline.n
    /\ \A i \in 1..pipeline.n : execSteps[i] = "success"
    /\ execStatus = "success"

\* C23: a triggered execution of a pipeline whose dependencies are all
\* declared earlier, whose commands all return 0 and whose quality gates all
\* pass, and which is never cancelled, runs every step, records each as
\* success and ends with status SUCCESS.
C23_AllSuccessEndsSuccess ==
    EndedWithNothingFailing => AllStepsSucceeded

\* The same for the executions whose workspace held source/src before the
\* clone.
C23_AllSuccessEndsSuccessAfterClone ==
    (EndedWithNothingFailing /\ srcDirExists) => AllStepsSucceeded

\* -------------------------------------------------------- claims: scanner
\* Number of results of the given severities
CountOf(rs, sevs) == Cardinality({i \in DOMAIN rs : rs[i].severity \in sevs})

\* C12: scan_infrastructure(targets) returns exactly three results per
\* target (network_security, application_security, compliance), each
\* naming its target in affected_resources, and appends exactly the returned
\* results to scan_results; after any sequence of scans alone,
\* len(scan_results) is the sum of the lengths of the lists returned so far.
C12_ThreeResultsPerTarget ==
    scanOut.op = "scan_infrastructure" =>
        LET returned == scanOut.value
            n == Len(scanTargets)
            before == Len(scan_results) - Len(returned)
        IN  /\ Len(returned) = 3 * n
            /\ \A i \in 1..n :
                   /\ returned[3 * i - 2].category = "network_security"
                   /\ returned[3 * i - 1].category = "application_security"
                   /\ returned[3 * i].category = "compliance"
                   /\ \A j \in (3 * i - 2)..(3 * i) :
                          \E k \in DOMAIN returned[j].affected_resources :
                              returned[j].affected_resources[k] = scanTargets[i]
            /\ before >= 0
            /\ SubSeq(scan_results, before + 1, Len(scan_results)) = returned
            /\ (mocked = 0 => Len(scan_results) = returnedTotal)

\* A second scan, of two different targets, has returned.
C12_Witness ==
    /\ scanOut.op = "scan_infrastructure"
    /\ nscans = 2
    /\ mocked = 0
    /\ Len(scanTargets) = 2
    /\ scanTargets[1] # scanTargets[2]

\* C13: generate_compliance_report returns {'error': 'No scan results
\* available'} exactly when scan_results is empty; otherwise its
\* compliance_score is max(0, 100 - 10*(critical + high) - 5*medium), and so
\* lies between 0 and 100, for any number of accumulated results.
C13_ComplianceScore ==
    scanOut.op = "generate_compliance_report" =>
        LET report == scanOut.value
            raw == 100 - 10 * CountOf(scan_results, {"critical", "high"})
                       - 5 * CountOf(scan_results, {"medium"})
        IN  /\ (report = [error |-> "No scan results available"])
                   <=> (scan_results = <<>>)
            /\ scan_results # <<>> =>
                   /\ report.scan_summary.compliance_score
                          = (IF raw < 0 THEN 0 ELSE raw)
                   /\ report.scan_summary.compliance_score \in 0..100

\* A report over so many results that the score is held at 0.
C13_Witness ==
    /\ scanOut.op = "generate_compliance_report"
    /\ 100 - 10 * CountOf(scan_results, {"critical", "high"})
           - 5 * CountOf(scan_results, {"medium"}) < 0
    /\ CountOf(scan_results, {"critical"}) > 0

\* C14: _generate_recommendations always returns a non-empty list of
\* strings, and the list contains 'Address high-severity vulnerabilities
\* immediately', placed first, if and only if scan_results has at least
\* one result of severity 'high'.
C14_HighSeverityRecommendation ==
    scanOut.op = "_generate_recommendations" =>
        LET recs == scanOut.value
            high == "Address high-severity vulnerabilities immediately"
            hasHigh == \E i \in DOMAIN scan_results :
                           scan_results[i].severity = "high"
        IN  /\ Len(recs) > 0
            /\ \A i \in DOMAIN recs : recs[i] \in STRING
            /\ (\E i \in DOMAIN recs : recs[i] = high) <=> hasHigh
            /\ (recs[1] = high) <=> hasHigh

\* Recommendations were asked for results with one of severity 'high'.
C14_Witness ==
    /\ scanOut.op = "_generate_recommendations"
    /\ \E i \in DOMAIN scan_results : scan_results[i].severity = "high"

\* -------------------------------------------------------- claims: scaling
\* Number of deployments of the workload with status 'running'
RunningCount(ds, w) ==
    Cardinality({i \in DOMAIN ds : ds[i].workload_id = w /\ ds[i].status = "running"})

\* Number of suitable ONLINE nodes for the workload
SuitableCount(ns, w) ==
    Cardinality({i \in DOMAIN ns : Suitable(ns[i], required_cpu(w))})

\* C15: scale_workload(w, n) with n >= 0 returns with exactly n deployments
\* of w running, provided that when scaling up at least (n - running
\* count) suitable ONLINE nodes exist; for n equal to the running count it
\* changes no deployment and returns an empty list.
C15_ScaleToTarget ==
    [][(edgeCalls' = edgeCalls + 1 /\ edgeOut'.op = "scale_workload"
          /\ edgeOut'.outcome = "returned" /\ edgeOut'.n >= 0) =>
          LET w == edgeOut'.w
              n == edgeOut'.n
              cur == RunningCount(deployments, w)
          IN  /\ (n > cur => SuitableCount(nodes, w) >= n - cur)
                     => RunningCount(deployments', w) = n
              /\ n = cur => /\ deployments' = deployments
                            /\ edgeOut'.returned = <<>>]_vars

\* A scale-up by two replicas and a scale-down have both happened: two
\* running and one stopped deployment of the workload scaled last.
C15_Witness ==
    /\ edgeOut.op = "scale_workload"
    /\ edgeOut.outcome = "returned"
    /\ edgeOut.n = 1
    /\ RunningCount(deployments, edgeOut.w) = 1
    /\ \E i \in DOMAIN deployments :
           deployments[i].workload_id = edgeOut.w /\ deployments[i].status = "stopped"

\* ------------------------------------------------------ claims: artifacts
\* The start time of the execution that owns the artifact: the one in whose
\* workspace the artifact was collected.
OwnerStart(store, execs, artifact_id) == execs[store[artifact_id].workspace]

\* C16: after cleanup_old_artifacts(retention_days) returns, artifacts_store
\* holds no artifact whose owning execution started before
\* (now - retention_days), and every artifact of a more recent execution is
\* still present.
C16_OldArtifactsRemoved ==
    [][(artCalls' = artCalls + 1 /\ artOut'.op = "cleanup_old_artifacts") =>
          LET cutoff == today - artOut'.days
          IN  /\ \A a \in DOMAIN artifacts_store' :
                     OwnerStart(artifacts_store', executions, a) >= cutoff
              /\ \A a \in DOMAIN artifacts_store :
                     OwnerStart(artifacts_store, executions, a) >= cutoff
                         => a \in DOMAIN artifacts_store']_vars

\* -------------------------------------------------------- claims: backups
\* C17: for a job whose backup_type is DIFFERENTIAL, once a backup of the
\* job has COMPLETED, a later execution of the job skips every file whose
\* modification time is not later than that baseline (the start of a
\* completed backup of the job) instead of copying all files again.
C17_DifferentialSkipsUnmodified ==
    [][(lastExec' # -1 /\ backup_type = "differential"
          /\ StartTimes(bexecs, BackupTypes) # {}) =>
          \E baseline \in StartTimes(bexecs, BackupTypes) :
              \A f \in Files :
                  mtime[f] <= baseline => f \notin bexecs'[lastExec'].copied]_vars

\* ----------------------------------------------------- claims: VM power
\* C18: after power_on_vm(name) has returned True, get_vm_details(name)
\* reports power_state 'poweredOn'; after power_off_vm(name) has returned
\* True it reports 'poweredOff'; both return False for a VM name that does
\* not exist.
C18_PowerStateFollows ==
    /\ (vsOut.op = "power_on_vm" /\ vsOut.result)
           => get_vm_details(vsOut.name).power_state = "poweredOn"
    /\ (vsOut.op = "power_off_vm" /\ vsOut.result)
           => get_vm_details(vsOut.name).power_state = "poweredOff"
    /\ (vsOut.op \in {"power_on_vm", "power_off_vm"}
           /\ \A i \in DOMAIN vm_templates : vm_templates[i] # vsOut.name)
           => ~vsOut.result

\* ------------------------------------------------------- claims: sessions
\* The text has the part 'Error generating report' in it.
ContainsErrorGeneratingReport(text) ==
    \E i \in DOMAIN text : text[i] = "Error generating report: "

\* C11: end_session, add_task_completion and get_session_metrics called
\* with a session id that was never started raise ValueError and create or
\* modify no session; generate_pair_session_report for such an id does not
\* raise but returns a string containing 'Error generating report'.
C11_UnknownSessionId ==
    [][(ncalls' = ncalls + 1 /\ lastCall'.sid \notin DOMAIN sessions
          /\ lastCall'.op # "start_session") =>
          /\ sessions' = sessions
          /\ IF lastCall'.op = "generate_pair_session_report"
             THEN /\ lastCall'.outcome = "returned"
                  /\ ContainsErrorGeneratingReport(lastCall'.value)
             ELSE lastCall'.outcome = "ValueError"]_vars

\* A report was asked for an id never started, next to a stored session.
C11_Witness ==
    /\ lastCall.op = "generate_pair_session_report"
    /\ lastCall.sid \notin DOMAIN sessions
    /\ DOMAIN sessions # {}

\* C8: start_session with a session id that already exists, open or ended,
\* raises ValueError and leaves the stored sessions as they were.
C8_DuplicateStartRaises ==
    [][\A sid \in SessionIds :
          (/\ ncalls' = ncalls + 1
           /\ lastCall'.op = "start_session"
           /\ lastCall'.sid = sid
           /\ sid \in DOMAIN sessions)
          => (lastCall'.outcome = "ValueError" /\ sessions' = sessions)]_vars

\* start_session was refused for an id whose session has ended and holds a
\* completed task.
C8_Witness ==
    /\ lastCall.op = "start_session"
    /\ lastCall.outcome = "ValueError"
    /\ lastCall.sid \in DOMAIN sessions
    /\ sessions[lastCall.sid].end_time # NoTime
    /\ sessions[lastCall.sid].tasks_completed # <<>>

\* C9: the metrics of a session count the add_task_completion calls that
\* returned for it and list their tasks in call order; a call for one
\* session changes no other session's list.
C9_TasksAreThoseAdded ==
    /\ \A sid \in DOMAIN sessions :
          /\ get_session_metrics(sessions, sid).tasks_completed = Len(addLog[sid])
          /\ get_session_metrics(sessions, sid).task_list = addLog[sid]
    /\ \A sid \in SessionIds \ DOMAIN sessions : addLog[sid] = <<>>

\* Two sessions with different task lists, one of them of two tasks.
C9_Witness ==
    /\ DOMAIN sessions = SessionIds
    /\ sessions["s1"].tasks_completed = <<"t2", "t1">>
    /\ sessions["s2"].tasks_completed = <<"t1">>

PlanInit ==
    /\ pplan \in PlansUpTo(MaxResources, MaxEdges)
    /\ ppc = "input"
    /\ levels = <<>>
    /\ order = <<>>

\* The two planning functions applied to the resources.
ApplyPlanning ==
    /\ ppc = "input"
    /\ levels' = _group_by_dependency_level(pplan)
    /\ order' = _calculate_execution_order(pplan)
    /\ ppc' = "done"
    /\ UNCHANGED pplan
    /\ UNCHANGED planOthers

PlanNext == ApplyPlanning

PlanSpecInit == PlanInit /\ DeployIdle /\ PairIdle /\ CicdIdle /\ RpaIdle /\ ScanIdle /\ EdgeIdle /\ ArtIdle /\ BackupIdle /\ VsIdle /\ StepIdle

PlanSpec == PlanSpecInit /\ [][PlanNext]_vars

\* ------------------------------------------------------ claims: planning
\* Number of places a resource id takes in a result of
\* _group_by_dependency_level.
RECURSIVE Occurrences(_, _, _)
Occurrences(lv, rid, k) ==
    IF k > Len(lv) THEN 0
    ELSE CountIn(lv[k].ids, rid) + Occurrences(lv, rid, k + 1)

LevelOf(lv, rid) == CHOOSE l \in LevelsOf(lv, rid) : TRUE

SetMax(S) == IF S = {} THEN 0 ELSE CHOOSE m \in S : \A x \in S : x <= m

\* C2: for a plan with acyclic dependencies _group_by_dependency_level puts
\* every resource in exactly one level (once), a resource without
\* dependencies in level 0, every in-plan dependency strictly below its
\* dependent, and a resource with dependencies at 1 + the highest level of
\* its dependencies (an id outside the plan counting as level 0).
C2_LevelsOfAcyclicPlan ==
    (ppc = "done" /\ Acyclic(pplan)) =>
        /\ \A k \in DOMAIN levels : Range(levels[k].ids) \subseteq 1..pplan.n
        /\ \A r \in 1..pplan.n :
            /\ Occurrences(levels, r, 1) = 1
            /\ Cardinality(LevelsOf(levels, r)) = 1
            /\ pplan.deps[r] = <<>> => LevelOf(levels, r) = 0
            /\ \A d \in PlanDeps(pplan, r) : LevelOf(levels, d) < LevelOf(levels, r)
            /\ pplan.deps[r] # <<>> =>
                 LevelOf(levels, r) =
                   1 + SetMax({LevelOf(levels, d) : d \in PlanDeps(pplan, r)})

\* A chain of three resources listed against their dependency order, grouped
\* into the levels 0, 1 and 2.
C2_Witness ==
    /\ ppc = "done" /\ Acyclic(pplan) /\ pplan.n = 3
    /\ pplan.deps[1] = <<2>> /\ pplan.deps[2] = <<3>>
    /\ LevelsOf(levels, 1) = {2} /\ LevelsOf(levels, 3) = {0}

\* C3: every resource on a dependency cycle is placed in level 0.
C3_CycleIsLevelZero ==
    ppc = "done" =>
        \A r \in 1..pplan.n : OnCycle(pplan, r) => LevelsOf(levels, r) = {0}

\* Position of an id in the execution order (0 when absent).
PosIn(s, x) == IF x \in Range(s) THEN CHOOSE i \in DOMAIN s : s[i] = x ELSE 0

\* C4: _calculate_execution_order lists every id at most once and after all
\* of its dependencies that are in the plan; for an acyclic plan it lists
\* every resource.
C4_ExecutionOrder ==
    ppc = "done" =>
        /\ Range(order) \subseteq 1..pplan.n
        /\ \A r \in 1..pplan.n : CountIn(order, r) <= 1
        /\ \A r \in Range(order) : \A d \in PlanDeps(pplan, r) :
              d \in Range(order) /\ PosIn(order, d) < PosIn(order, r)
        /\ Acyclic(pplan) => Range(order) = 1..pplan.n

\* A chain listed against its dependency order, with a dependency on an id
\* outside the plan, ordered dependencies first.
C4_Witness ==
    /\ ppc = "done" /\ pplan.n = 3
    /\ pplan.deps[1] = <<2, 0>> /\ pplan.deps[2] = <<3>>
    /\ order = <<3, 2, 1>>

====
